---- MODULE Spec2Model ----
(***************************************************************************)
(* A model of the StarPrntEncoder class (dist/star-prnt-encoder.cjs): the  *)
(* command queue, the state tracker, the flush algorithm and the layout    *)
(* compositor.  An encoder context is a record; every method of the class  *)
(* is an operator from a context (and its arguments) to the context after  *)
(* the call.  A method that throws leaves the message in the field err and *)
(* the context as the code left it at the throw.                           *)
(*                                                                         *)
(* Strings are sequences of code points, byte strings sequences of numbers *)
(* in 0..255.  The queue and the buffer hold the bytes of their items in   *)
(* order (an item is a number or an array of numbers; encode() writes the  *)
(* items one after the other into the result).                             *)
(***************************************************************************)
EXTENDS Integers, Sequences, FiniteSets, TLC

\* ------------------------------------------------------------------ bounds
MaxOps == 3          \* calls made on the encoder in one behaviour
PaperWidth == 4      \* the width option of the configured encoders
MaxPayload == 256    \* characters of the longest QR code payload

\* ------------------------------------------------------- sequence helpers
Fill(n, b) == [i \in 1..n |-> b]

Spaces(n) == Fill(n, 32)

Max(a, b) == IF a > b THEN a ELSE b

\* String.prototype.padEnd / padStart with the default pad string " "
padEnd(s, n) == IF Len(s) >= n THEN s ELSE s \o Spaces(n - Len(s))

padStart(s, n) == IF Len(s) >= n THEN s ELSE Spaces(n - Len(s)) \o s

\* ------------------------------------------------------------- code pages
codepageMappings ==
  [ cp437 |-> 1, cp858 |-> 4, cp852 |-> 5, cp860 |-> 6, cp861 |-> 7,
    cp863 |-> 8, cp865 |-> 9, cp866 |-> 10, cp855 |-> 11, cp857 |-> 12,
    cp862 |-> 13, cp864 |-> 14, cp737 |-> 15, cp869 |-> 17, cp874 |-> 20,
    windows1252 |-> 32, windows1250 |-> 33, windows1251 |-> 34 ]

codepageCandidates ==
  << "cp437", "cp858", "cp860", "cp861", "cp863", "cp865",
     "cp852", "cp857", "cp855", "cp866", "cp869" >>

\* The characters of the model are the code points 97 (a), 98 (b),
\* 32 (space), 233 (e-acute), 337 (o-double-acute) and 3585 (the Thai
\* letter ko kai).

\* Position table of the character encoder: the byte of a non-ASCII
\* character in a code page, 0 when the code page does not hold it.
ExtendedByte(ch, cp) ==
  CASE ch = 233 /\ cp \in {"cp437", "cp858", "cp860", "cp861", "cp863",
                                "cp865", "cp852", "cp857", "cp850"} -> 130
    [] ch = 233 /\ cp \in {"windows1252", "windows1250"} -> 233
    [] ch = 337 /\ cp = "cp852" -> 139
    [] ch = 337 /\ cp = "windows1250" -> 245
    [] ch = 3585 /\ cp = "cp874" -> 161
    [] ch < 256 /\ cp = "iso88591" -> ch
    [] OTHER -> 0

\* CodepageEncoder.encode(value, codepage): one byte for every character,
\* 0x3F for a character the code page does not hold.
CodepageEncodeMutantKeepsLowByte(s, cp) ==
  [i \in 1..Len(s) |->
     IF s[i] < 128 THEN s[i]
     ELSE IF ExtendedByte(s[i], cp) # 0 THEN ExtendedByte(s[i], cp)
     ELSE s[i] % 256]

CodepageEncode(s, cp) ==
  [i \in 1..Len(s) |->
     IF s[i] < 128 THEN s[i]
     ELSE IF ExtendedByte(s[i], cp) # 0 THEN ExtendedByte(s[i], cp) ELSE 63]

\* The candidate chosen by CodepageEncoder.autoEncode for one character,
\* given the code page of the run in progress ("" when there is none).
RECURSIVE FirstHolding(_, _)
FirstHolding(ch, cands) ==
  IF cands = <<>> THEN ""
  ELSE IF ExtendedByte(ch, Head(cands)) # 0 THEN Head(cands)
  ELSE FirstHolding(ch, Tail(cands))

AutoPick(ch, current, cands) ==
  IF ch < 128 THEN (IF current # "" THEN current ELSE cands[1])
  ELSE IF current # "" /\ ExtendedByte(ch, current) # 0 THEN current
  ELSE IF FirstHolding(ch, cands) # "" THEN FirstHolding(ch, cands)
  ELSE IF current # "" THEN current ELSE cands[1]

\* CodepageEncoder.autoEncode(value, candidates): the runs, in order, each
\* a record of its code page and its bytes.
RECURSIVE AutoEncodeFrom(_, _, _, _)
AutoEncodeFrom(s, i, cands, frags) ==
  IF i > Len(s) THEN frags
  ELSE LET current == IF frags = <<>> THEN "" ELSE frags[Len(frags)].codepage
           avail == AutoPick(s[i], current, cands)
           byte == CodepageEncode(<<s[i]>>, avail)[1]
       IN IF avail # current
          THEN AutoEncodeFrom(s, i + 1, cands,
                 Append(frags, [codepage |-> avail, bytes |-> <<byte>>]))
          ELSE AutoEncodeFrom(s, i + 1, cands,
                 [frags EXCEPT ![Len(frags)].bytes = Append(@, byte)])

autoEncode(s, cands) == AutoEncodeFrom(s, 1, cands, <<>>)

\* ----------------------------------------------------------- line wrapper
\* linewrap(stop, {whitespace}): greedy soft wrap.  A word that does not
\* fit on the current line starts a new one; a word longer than the line
\* is not broken.  With whitespace "default" the blanks before an inserted
\* break are dropped, with "all" they stay at the end of the line.
StripTrailing(s) ==
  LET keep == {i \in 1..Len(s) : s[i] # 32}
      last == IF keep = {} THEN 0 ELSE CHOOSE i \in keep : \A j \in keep : j <= i
  IN SubSeq(s, 1, last)

RECURSIVE WrapFrom(_, _, _, _, _, _, _)
WrapFrom(s, i, stop, ws, lines, cur, word) ==
  LET broke == word # <<>> /\ cur # <<>> /\ Len(cur) + Len(word) > stop
      closed == IF ws = "all" THEN cur ELSE StripTrailing(cur)
      lines2 == IF broke THEN Append(lines, closed) ELSE lines
      cur2 == IF broke THEN word ELSE cur \o word
  IN IF i > Len(s) THEN Append(lines2, cur2)
     ELSE IF s[i] = 32
          THEN WrapFrom(s, i + 1, stop, ws, lines2, Append(cur2, 32), <<>>)
          ELSE WrapFrom(s, i + 1, stop, ws, lines, cur, Append(word, s[i]))

linewrap(stop, ws, s) == WrapFrom(s, 1, stop, ws, <<>>, <<>>, <<>>)

\* ---------------------------------------------------------------- context
NoWidth == 0         \* the option width: null (falsy, like 0)

DefaultOptions ==
  [width |-> NoWidth, embedded |-> FALSE, wordWrap |-> TRUE,
   codepageCandidates |-> codepageCandidates]

\* The width and height multipliers and the cursor are JavaScript numbers,
\* and width(1.5) makes them halves: the fields width, height and cursor
\* hold twice the number, so the defaults 1 and 1 are 2 and 2.
DefaultState ==
  [codepage |-> 0, align |-> "left", bold |-> FALSE, italic |-> FALSE,
   underline |-> FALSE, invert |-> FALSE, width |-> 2, height |-> 2]

\* _reset(options): the options merged over the defaults by the caller.
\* issued is a history field, not a field of the class: the bytes handed to
\* _queue since the last reset.
_reset(options) ==
  [options |-> options,
   embedded |-> (options.width # NoWidth /\ options.embedded),
   buffer |-> <<>>,
   queued |-> <<>>,
   cursor |-> 0,
   codepage |-> "ascii",
   state |-> DefaultState,
   err |-> "",
   issued |-> <<>>]

\* new StarPrntEncoder(options)
StarPrntEncoder(options) == _reset(options)

Throw(c, msg) == [c EXCEPT !.err = msg]

Failed(c) == c.err # ""

\* _queue(value): the bytes of the items of value, appended in order.
_queue(c, bytes) ==
  [c EXCEPT !.queued = @ \o bytes, !.issued = @ \o bytes]

\* _flush(), dist 137-160: the queue with the padding of an embedded
\* context whose indent is a whole number or, for center, negative.  For
\* center a negative indent gives remainder <= 0 and indent >> 1 <= 0, so
\* neither array is built.
PaddedMutantCenterRight(c) ==
  LET indent == (2 * c.options.width - c.cursor) \div 2
      half == IF indent > 0 THEN indent \div 2 ELSE 0
      rest == IF indent > 0 THEN indent % 2 ELSE 0
  IN IF ~c.embedded THEN c.queued
     ELSE IF c.state.align = "left" THEN c.queued \o Spaces(indent)
     ELSE IF c.state.align = "right" THEN Spaces(indent) \o c.queued
     ELSE IF c.state.align = "center"
     THEN Spaces(half) \o c.queued \o Spaces(half + rest)
     ELSE c.queued

PaddedMutantSkipEmpty(c) ==
  LET indent == (2 * c.options.width - c.cursor) \div 2
      half == IF indent > 0 THEN indent \div 2 ELSE 0
      rest == IF indent > 0 THEN indent % 2 ELSE 0
  IN IF ~c.embedded \/ c.queued = <<>> THEN c.queued
     ELSE IF c.state.align = "left" THEN c.queued \o Spaces(indent)
     ELSE IF c.state.align = "right" THEN Spaces(indent) \o c.queued
     ELSE IF c.state.align = "center"
     THEN Spaces(half + rest) \o c.queued \o Spaces(half)
     ELSE c.queued

Padded(c) ==
  LET indent == (2 * c.options.width - c.cursor) \div 2
      half == IF indent > 0 THEN indent \div 2 ELSE 0
      rest == IF indent > 0 THEN indent % 2 ELSE 0
  IN IF ~c.embedded THEN c.queued
     ELSE IF c.state.align = "left" THEN c.queued \o Spaces(indent)
     ELSE IF c.state.align = "right" THEN Spaces(indent) \o c.queued
     ELSE IF c.state.align = "center"
     THEN Spaces(half + rest) \o c.queued \o Spaces(half)
     ELSE c.queued

\* _flush(): new Array(indent) throws a RangeError for an indent that is
\* negative or not a whole number.  For left and right alignment that is
\* before anything is changed.  For center a positive indent x.5 has
\* indent >> 1 = floor(x / 2) and a remainder of 0.5 or 1.5: the spaces
\* after the text are pushed, and the array before the text throws.
_flushMutantReorder(c) ==
  LET twice == 2 * c.options.width - c.cursor
  IN IF c.embedded /\ c.state.align \in {"left", "right"}
        /\ (twice < 0 \/ twice % 2 = 1)
     THEN Throw(c, "Invalid array length")
     ELSE IF c.embedded /\ c.state.align = "center"
             /\ twice > 0 /\ twice % 2 = 1
     THEN Throw([c EXCEPT !.queued = @ \o Spaces(twice \div 4)],
                "Invalid array length")
     ELSE [c EXCEPT !.buffer = Padded(c) \o @, !.queued = <<>>, !.cursor = 0]

_flush(c) ==
  LET twice == 2 * c.options.width - c.cursor
  IN IF c.embedded /\ c.state.align \in {"left", "right"}
        /\ (twice < 0 \/ twice % 2 = 1)
     THEN Throw(c, "Invalid array length")
     ELSE IF c.embedded /\ c.state.align = "center"
             /\ twice > 0 /\ twice % 2 = 1
     THEN Throw([c EXCEPT !.queued = @ \o Spaces(twice \div 4)],
                "Invalid array length")
     ELSE [c EXCEPT !.buffer = @ \o Padded(c), !.queued = <<>>, !.cursor = 0]

\* _getCodepageIdentifier(codepage) under the mapping 'star'
_getCodepageIdentifier(cp) == codepageMappings[cp]

\* _encode(value): the bytes, and the tracked codepage id afterwards (auto
\* mode records the id of the last run).
\* codepages[name] has no check in _encode: a code page the mapping does not
\* define gives undefined, which the Uint8Array stores as the byte 0 and the
\* tracked state keeps as undefined.
UndefinedId == -1

codepages(cp) ==
  IF cp \in DOMAIN codepageMappings THEN codepageMappings[cp]
  ELSE UndefinedId

RECURSIVE AutoBytes(_)
AutoBytes(frags) ==
  IF frags = <<>> THEN <<>>
  ELSE <<27, 29, 116,
         IF codepages(Head(frags).codepage) = UndefinedId THEN 0
         ELSE codepages(Head(frags).codepage)>>
       \o Head(frags).bytes \o AutoBytes(Tail(frags))

_encodeBytes(c, s) ==
  IF c.codepage # "auto" THEN CodepageEncode(s, c.codepage)
  ELSE AutoBytes(autoEncode(s, c.options.codepageCandidates))

_encodeState(c, s) ==
  LET frags == autoEncode(s, c.options.codepageCandidates)
  IN IF c.codepage # "auto" \/ frags = <<>> THEN c
     ELSE [c EXCEPT !.state.codepage =
                      codepages(frags[Len(frags)].codepage)]

\* -------------------------------------------------------------- arguments
\* An optional argument: undefined, a boolean, a whole number, a number
\* k / 2 with an odd k (Frac(3) is 1.5), or a string that is neither a
\* numeral nor the name of a property (Str(1) is "x").
Undef == [t |-> "undefined", n |-> 0]

Bool(b) == [t |-> "boolean", n |-> IF b THEN 1 ELSE 0]

Num(n) == [t |-> "number", n |-> n]

Str(n) == [t |-> "string", n |-> n]

Frac(k) == [t |-> "fraction", n |-> k]

\* typeof v === 'number'
IsNumber(v) == v.t \in {"number", "fraction"}

\* twice the number v
Twice(v) == IF v.t = "fraction" THEN v.n ELSE 2 * v.n

Truthy(v) == v.t \in {"boolean", "number", "fraction"} /\ v.n # 0

\* ---------------------------------------------------------------- methods
\* initialize()
initialize(c) == _flush(_queue(c, <<27, 64, 24>>))

\* underline(value)
underline(c, value) ==
  LET v == IF value.t = "undefined" THEN ~c.state.underline ELSE Truthy(value)
  IN _queue([c EXCEPT !.state.underline = v], <<27, 45, IF v THEN 1 ELSE 0>>)

\* italic(value): a no-op
italic(c, value) == c

\* bold(value)
boldMutantNoToggle(c, value) ==
  LET v == IF value.t = "undefined" THEN TRUE ELSE Truthy(value)
  IN _queue([c EXCEPT !.state.bold = v],
            IF v THEN <<27, 69>> ELSE <<27, 70>>)

bold(c, value) ==
  LET v == IF value.t = "undefined" THEN ~c.state.bold ELSE Truthy(value)
  IN _queue([c EXCEPT !.state.bold = v],
            IF v THEN <<27, 69>> ELSE <<27, 70>>)

\* invert(value)
invert(c, value) ==
  LET v == IF value.t = "undefined" THEN ~c.state.invert ELSE Truthy(value)
  IN _queue([c EXCEPT !.state.invert = v], <<27, IF v THEN 52 ELSE 53>>)

\* width(width) and height(height) queue height - 1 and width - 1; encode()
\* writes them into a Uint8Array, which drops the fraction of 0.5.
SizeByte(twice) == (twice - 2) \div 2

width(c, w) ==
  LET v == IF w.t = "undefined" THEN Num(1) ELSE w
  IN IF ~IsNumber(v) THEN Throw(c, "Width must be a number")
     ELSE IF Twice(v) < 2 \/ Twice(v) > 12
     THEN Throw(c, "Width must be between 1 and 6")
     ELSE _queue([c EXCEPT !.state.width = Twice(v)],
                 <<27, 105, SizeByte(c.state.height), SizeByte(Twice(v))>>)

\* height(height)
heightMutantForgetsWidth(c, h) ==
  LET v == IF h.t = "undefined" THEN Num(1) ELSE h
  IN IF ~IsNumber(v) THEN Throw(c, "Height must be a number")
     ELSE IF Twice(v) < 2 \/ Twice(v) > 12
     THEN Throw(c, "Height must be between 1 and 6")
     ELSE _queue([c EXCEPT !.state.height = Twice(v)],
                 <<27, 105, SizeByte(Twice(v)), 0>>)

height(c, h) ==
  LET v == IF h.t = "undefined" THEN Num(1) ELSE h
  IN IF ~IsNumber(v) THEN Throw(c, "Height must be a number")
     ELSE IF Twice(v) < 2 \/ Twice(v) > 12
     THEN Throw(c, "Height must be between 1 and 6")
     ELSE _queue([c EXCEPT !.state.height = Twice(v)],
                 <<27, 105, SizeByte(Twice(v)), SizeByte(c.state.width)>>)

\* The operator in of JavaScript, as in (value in alignments): it holds of
\* the keys of the object literal and of the names the literal inherits from
\* Object.prototype.  Of these the model has toString and constructor, with
\* the length of the inherited function.
ObjectPrototype == [toString |-> 0, constructor |-> 1]

In(name, object) ==
  name \in DOMAIN object \/ name \in DOMAIN ObjectPrototype

\* The bytes encode() makes of the item object[name]: the number of a key
\* of the literal; for an inherited function result.set(item, index) copies
\* item.length elements, each undefined, which a Uint8Array holds as 0.
Item(name, object) ==
  IF name \in DOMAIN object THEN <<object[name]>>
  ELSE Fill(ObjectPrototype[name], 0)

\* align(value)
alignments == [left |-> 0, center |-> 1, right |-> 2]

align(c, value) ==
  IF In(value, alignments)
  THEN LET c1 == [c EXCEPT !.state.align = value]
       IN IF ~c.embedded
          THEN _queue(c1, <<27, 29, 97>> \o Item(value, alignments))
          ELSE c1
  ELSE Throw(c, "Unknown alignment")

\* CodepageEncoder.supports(codepage): the code pages of the character
\* encoder; it knows more code pages than the printer mapping lists.
supports(cp) == cp \in DOMAIN codepageMappings \/ cp \in {"cp850"}

\* codepage(codepage)
codepageMutantKeepName(c, cp) ==
  IF cp = "auto" THEN [c EXCEPT !.codepage = cp]
  ELSE IF ~supports(cp) THEN Throw(c, "Unknown codepage")
  ELSE IF cp \in DOMAIN codepageMappings
       THEN _queue([c EXCEPT !.state.codepage = codepageMappings[cp]],
                   <<27, 29, 116, codepageMappings[cp]>>)
       ELSE Throw(c, "Codepage not supported by printer")

codepage(c, cp) ==
  IF cp = "auto" THEN [c EXCEPT !.codepage = cp]
  ELSE IF ~supports(cp) THEN Throw(c, "Unknown codepage")
  ELSE IF cp \in DOMAIN codepageMappings
       THEN _queue([c EXCEPT !.codepage = cp,
                             !.state.codepage = codepageMappings[cp]],
                   <<27, 29, 116, codepageMappings[cp]>>)
       ELSE Throw(c, "Codepage not supported by printer")

\* _restoreState()
_restoreState(c) ==
  LET c1 == bold(c, Bool(c.state.bold))
      c2 == italic(c1, Bool(c1.state.italic))
      c3 == underline(c2, Bool(c2.state.underline))
      c4 == invert(c3, Bool(c3.state.invert))
  IN _queue(c4, <<27, 29, 116, c4.state.codepage>>)

\* newline()
newlineMutantAlwaysRestores(c) ==
  LET c1 == _flush(c)
      c2 == _queue(c1, <<10, 13>>)
  IN IF Failed(c1) THEN c1 ELSE _restoreState(c2)

newline(c) ==
  LET c1 == _flush(c)
      c2 == _queue(c1, <<10, 13>>)
  IN IF Failed(c1) THEN c1
     ELSE IF c2.embedded THEN _restoreState(c2) ELSE c2

\* _wrap(value, position): position 0 stands for an omitted wrap argument.
\* The indent is one unbroken word of cursor dashes at the start of the
\* first line, so substring(cursor) removes it from the first line; repeat
\* and substring drop the fraction of a cursor x.5.
ChDash == 45

_wrap(c, value, position) ==
  IF position # 0 \/ (c.options.wordWrap /\ c.options.width # NoWidth)
  THEN LET stop == IF position # 0 THEN position ELSE c.options.width
           ls == linewrap(stop, "all", Fill(c.cursor \div 2, ChDash) \o value)
       IN [ls EXCEPT ![1] = SubSeq(@, c.cursor \div 2 + 1, Len(@))]
  ELSE <<value>>

\* text(value, wrap): the loop over the wrapped lines, from line l on
RECURSIVE TextLines(_, _, _)
TextLines(c, lines, l) ==
  IF l > Len(lines) \/ Failed(c) THEN c
  ELSE LET cur == c.cursor + Len(lines[l]) * c.state.width
           c1 == [_queue(_encodeState(c, lines[l]), _encodeBytes(c, lines[l]))
                    EXCEPT !.cursor =
                      IF c.options.width # NoWidth /\ ~c.embedded
                      THEN cur % (2 * c.options.width) ELSE cur]
       IN TextLines(IF l < Len(lines) THEN newline(c1) ELSE c1, lines, l + 1)

textMutantCursorKept(c, value, wrap) ==
  [TextLines(c, _wrap(c, value, wrap), 1) EXCEPT !.cursor = c.cursor]

text(c, value, wrap) == TextLines(c, _wrap(c, value, wrap), 1)

\* The newline() of line(): not reached when text() threw.
ThenNewline(c) == IF Failed(c) THEN c ELSE newline(c)

\* line(value, wrap)
lineMutantNoNewline(c, value, wrap) == text(c, value, wrap)

line(c, value, wrap) == ThenNewline(text(c, value, wrap))

\* raw(data)
rawMutantCountsColumns(c, data) ==
  [_queue(c, data) EXCEPT !.cursor = @ + 2 * Len(data)]

raw(c, data) == _queue(c, data)

\* cut(value): value is "partial", "full" or "undefined"
cutMutantEverywhere(c, value) ==
  _queue(c, <<27, 100, IF value = "partial" THEN 1 ELSE 0>>)

cutMutantPartialUnlessFull(c, value) ==
  IF c.embedded THEN Throw(c, "Cut is not supported in table cells or boxes")
  ELSE _queue(c, <<27, 100, IF value = "full" THEN 0 ELSE 1>>)

cut(c, value) ==
  IF c.embedded THEN Throw(c, "Cut is not supported in table cells or boxes")
  ELSE _queue(c, <<27, 100, IF value = "partial" THEN 1 ELSE 0>>)

\* encode(): the bytes returned, and the context after the reset.  The
\* reset is _reset() without options, so the options are the defaults.
\* An undefined item of the buffer (a select of an undefined tracked id) has
\* no length: the copy loop throws a TypeError.
HasUndefinedItem(c) == \E i \in 1..Len(c.buffer) : c.buffer[i] = UndefinedId

encodeResult(c) ==
  LET c1 == _flush(c)
  IN IF Failed(c1) \/ HasUndefinedItem(c1) THEN <<>> ELSE c1.buffer

encodeMutantKeepBuffer(c) ==
  LET c1 == _flush(c)
  IN IF Failed(c1) THEN c1
     ELSE [_reset(DefaultOptions) EXCEPT !.buffer = c1.buffer]

encode(c) ==
  LET c1 == _flush(c)
  IN IF Failed(c1) THEN c1
     ELSE IF HasUndefinedItem(c1)
       THEN Throw(c1, "Cannot read properties of undefined")
     ELSE _reset(DefaultOptions)

\* -------------------------------------------------------------- callbacks
\* A callback passed to table() or box() is the list of the calls it makes
\* on the encoder it receives.  A call is a record: op the method, s its
\* string or byte argument, v its optional argument, a its name argument.
Cmd(op, s, v, a) == [op |-> op, s |-> s, v |-> v, a |-> a]

Apply(c, cmd) ==
  CASE cmd.op = "text" -> text(c, cmd.s, cmd.v.n)
    [] cmd.op = "line" -> line(c, cmd.s, cmd.v.n)
    [] cmd.op = "newline" -> newline(c)
    [] cmd.op = "bold" -> bold(c, cmd.v)
    [] cmd.op = "underline" -> underline(c, cmd.v)
    [] cmd.op = "invert" -> invert(c, cmd.v)
    [] cmd.op = "width" -> width(c, cmd.v)
    [] cmd.op = "height" -> height(c, cmd.v)
    [] cmd.op = "align" -> align(c, cmd.a)
    [] cmd.op = "codepage" -> codepage(c, cmd.a)
    [] cmd.op = "raw" -> raw(c, cmd.s)
    [] cmd.op = "cut" -> cut(c, cmd.a)
    [] OTHER -> c

\* The calls of a callback in order; a throw ends the callback.
RECURSIVE Run(_, _)
Run(c, prog) ==
  IF prog = <<>> \/ Failed(c) THEN c
  ELSE Run(Apply(c, Head(prog)), Tail(prog))

\* A cell or the contents of a box: a string, a callback, or neither.
StringCell(s) == [t |-> "string", s |-> s, prog |-> <<>>]

FunctionCell(prog) == [t |-> "function", s |-> <<>>, prog |-> prog]

NoCell == [t |-> "undefined", s |-> <<>>, prog |-> <<>>]

\* ------------------------------------------------------------------ table
\* The loop that cuts the bytes of a nested encoder at every 0x0A 0x0D pair
\* (dist 580-598 and 751-769); a last fragment is kept unless it is empty.
RECURSIVE SplitFrom(_, _, _, _)
SplitFrom(encoded, e, cell, fragment) ==
  IF e > Len(encoded)
  THEN (IF fragment # <<>> THEN Append(cell, fragment) ELSE cell)
  ELSE IF e < Len(encoded) /\ encoded[e] = 10 /\ encoded[e + 1] = 13
       THEN SplitFrom(encoded, e + 2, Append(cell, fragment), <<>>)
       ELSE SplitFrom(encoded, e + 1, cell, Append(fragment, encoded[e]))

SplitLines(encoded) == SplitFrom(encoded, 1, <<>>, <<>>)

\* A string cell (dist 556-567 and 727-738): one encoded fragment for every
\* wrapped line, padded to the width; the parent context encodes it.
RECURSIVE StringFragmentsMutantPadEnd(_, _, _, _, _)
StringFragmentsMutantPadEnd(c, fragments, f, w, alignment) ==
  IF f > Len(fragments) THEN [ctx |-> c, cell |-> <<>>]
  ELSE LET padded == padEnd(fragments[f], w)
           rest == StringFragmentsMutantPadEnd(_encodeState(c, padded),
                                               fragments, f + 1, w, alignment)
       IN [ctx |-> rest.ctx,
           cell |-> <<_encodeBytes(c, padded)>> \o rest.cell]

RECURSIVE StringFragments(_, _, _, _, _)
StringFragments(c, fragments, f, w, alignment) ==
  IF f > Len(fragments) THEN [ctx |-> c, cell |-> <<>>]
  ELSE LET padded == IF alignment = "right" THEN padStart(fragments[f], w)
                     ELSE padEnd(fragments[f], w)
           rest == StringFragments(_encodeState(c, padded), fragments, f + 1,
                                   w, alignment)
       IN [ctx |-> rest.ctx,
           cell |-> <<_encodeBytes(c, padded)>> \o rest.cell]

\* A callback cell (dist 569-599 and 740-770): a new embedded encoder of the
\* given width, which takes the code page name of the parent.
NestedEncoderMutantAlignDefault(c, w, alignment, prog) ==
  LET columnEncoder ==
        [StarPrntEncoder([c.options EXCEPT !.width = w, !.embedded = TRUE])
           EXCEPT !.codepage = c.codepage]
      aligned == align(columnEncoder,
                       IF alignment = "undefined" THEN "left" ELSE alignment)
  IN Run(aligned, prog)

NestedEncoder(c, w, alignment, prog) ==
  LET columnEncoder ==
        [StarPrntEncoder([c.options EXCEPT !.width = w, !.embedded = TRUE])
           EXCEPT !.codepage = c.codepage]
      aligned == align(columnEncoder, alignment)
  IN Run(aligned, prog)

\* The lines of a nested encoder after its callback (dist 578-598 and
\* 749-769): encode() and the cut at the line ends.  A throw of the callback
\* or of encode() is a throw of the parent call.
EncodedCellMutantLeaksState(c, nested) ==
  IF Failed(nested) THEN [ctx |-> Throw(c, nested.err), cell |-> <<>>]
  ELSE IF Failed(_flush(nested))
  THEN [ctx |-> Throw(c, _flush(nested).err), cell |-> <<>>]
  ELSE [ctx |-> [c EXCEPT !.state = nested.state],
        cell |-> SplitLines(encodeResult(nested))]

EncodedCell(c, nested) ==
  IF Failed(nested) THEN [ctx |-> Throw(c, nested.err), cell |-> <<>>]
  ELSE IF Failed(_flush(nested))
  THEN [ctx |-> Throw(c, _flush(nested).err), cell |-> <<>>]
  ELSE [ctx |-> c, cell |-> SplitLines(encodeResult(nested))]

\* The cell of one column: the parent context afterwards (err set when the
\* nested encoder threw) and the fragments of the cell.
CellOf(c, w, alignment, content) ==
  IF content.t = "string"
  THEN StringFragments(c, linewrap(w, "default", content.s), 1, w, alignment)
  ELSE IF content.t = "function"
  THEN EncodedCell(c, NestedEncoder(c, w, alignment, content.prog))
  ELSE [ctx |-> c, cell |-> <<>>]

\* A column definition: width, marginLeft and marginRight (0 when omitted:
\* no bytes either way), align and verticalAlign ("undefined" when omitted).
Column(w, ml, mr, al, va) ==
  [width |-> w, marginLeft |-> ml, marginRight |-> mr, align |-> al,
   verticalAlign |-> va]

CellAt(row, k) == IF k <= Len(row) THEN row[k] ELSE NoCell

\* dist 602: lines[c] = cell, with the context the cell leaves
AddCell(cells, one) ==
  [ctx |-> one.ctx, lines |-> Append(cells.lines, one.cell)]

\* dist 553-603: the cells of one row, column by column from column k on
RECURSIVE RowCells(_, _, _, _)
RowCells(cells, columns, row, k) ==
  IF k > Len(columns) \/ Failed(cells.ctx) THEN cells
  ELSE RowCells(AddCell(cells, CellOf(cells.ctx, columns[k].width,
                                      columns[k].align, CellAt(row, k))),
                columns, row, k + 1)

RECURSIVE MaxLen(_)
MaxLen(lines) ==
  IF lines = <<>> THEN 0 ELSE Max(Len(Head(lines)), MaxLen(Tail(lines)))

\* dist 605-620: the vertical padding of one column
PadColumnMutantAlwaysBottom(cell, column, maxLines) ==
  IF Len(cell) >= maxLines THEN cell
  ELSE [p \in 1..(maxLines - Len(cell)) |-> Spaces(column.width)] \o cell

PadColumn(cell, column, maxLines) ==
  LET blank == [p \in 1..(maxLines - Len(cell)) |-> Spaces(column.width)]
  IN IF Len(cell) >= maxLines THEN cell
     ELSE IF column.verticalAlign = "bottom" THEN blank \o cell
     ELSE cell \o blank

PadRow(lines, columns, maxLines) ==
  [k \in 1..Len(columns) |-> PadColumn(lines[k], columns[k], maxLines)]

\* dist 622-636: the bytes of one visual line, column by column
RECURSIVE EmitColumns(_, _, _, _, _)
EmitColumns(c, columns, lines, l, k) ==
  IF k > Len(columns) THEN c
  ELSE LET c1 == raw(c, Spaces(columns[k].marginLeft))
           c2 == raw(c1, lines[k][l])
           c3 == raw(c2, Spaces(columns[k].marginRight))
       IN EmitColumns(c3, columns, lines, l, k + 1)

RECURSIVE EmitLines(_, _, _, _, _)
EmitLines(c, columns, lines, maxLines, l) ==
  IF l > maxLines \/ Failed(c) THEN c
  ELSE EmitLines(newline(EmitColumns(c, columns, lines, l, 1)),
                 columns, lines, maxLines, l + 1)

\* dist 605-637: the cells of a row padded to maxLines and emitted
EmitRowMutantNewlineAfterRow(cells, columns) ==
  LET maxLines == MaxLen(cells.lines)
  IN IF Failed(cells.ctx) THEN cells.ctx
     ELSE ThenNewline(EmitLines(cells.ctx, columns,
                                PadRow(cells.lines, columns, maxLines),
                                maxLines, 1))

EmitRow(cells, columns) ==
  LET maxLines == MaxLen(cells.lines)
  IN IF Failed(cells.ctx) THEN cells.ctx
     ELSE EmitLines(cells.ctx, columns, PadRow(cells.lines, columns, maxLines),
                    maxLines, 1)

\* dist 549-637: the rows from row r on
RECURSIVE TableRows(_, _, _, _)
TableRows(c, columns, data, r) ==
  IF r > Len(data) \/ Failed(c) THEN c
  ELSE TableRows(EmitRow(RowCells([ctx |-> c, lines |-> <<>>], columns,
                                  data[r], 1), columns),
                 columns, data, r + 1)

\* table(columns, data)
tableMutantAlwaysNewline(c, columns, data) ==
  TableRows(newline(c), columns, data, 1)

table(c, columns, data) ==
  TableRows(IF c.cursor # 0 THEN newline(c) ELSE c, columns, data, 1)

\* ------------------------------------------------------------ rule and box
\* rule(options): style "single" or "double"; width 0 stands for an omitted
\* width, which defaults to the paper width or 10.
DefaultRuleWidth == 10

ruleMutantStaysInCp437(c, style, w) ==
  LET n == IF w # 0 THEN w
           ELSE IF c.options.width # NoWidth THEN c.options.width
           ELSE DefaultRuleWidth
  IN newline(_queue(c, <<27, 29, 116, _getCodepageIdentifier("cp437")>>
                       \o Fill(n, IF style = "double" THEN 205 ELSE 196)))

rule(c, style, w) ==
  LET n == IF w # 0 THEN w
           ELSE IF c.options.width # NoWidth THEN c.options.width
           ELSE DefaultRuleWidth
      c1 == _queue(c, <<27, 29, 116, _getCodepageIdentifier("cp437")>>
                      \o Fill(n, IF style = "double" THEN 205 ELSE 196))
      c2 == _queue(c1, <<27, 29, 116, c1.state.codepage>>)
  IN newline(c2)

\* The options of box(): width 0 stands for an omitted width, which
\* defaults to the paper width or 30; the margins and paddings default to 0.
DefaultBoxWidth == 30

BoxOptions(style, w, ml, mr, pl, pr, al) ==
  [style |-> style, width |-> w, marginLeft |-> ml, marginRight |-> mr,
   paddingLeft |-> pl, paddingRight |-> pr, align |-> al]

BoxWidth(c, options) ==
  IF options.width # 0 THEN options.width
  ELSE IF c.options.width # NoWidth THEN c.options.width
  ELSE DefaultBoxWidth

BoxInner(c, options) ==
  BoxWidth(c, options) - 2 - options.paddingLeft - options.paddingRight

\* corner and border glyphs: top-left, top-right, bottom-left,
\* bottom-right, horizontal, vertical
BoxElements(style) ==
  IF style = "double" THEN <<201, 187, 200, 188, 205, 186>>
  ELSE <<218, 191, 192, 217, 196, 179>>

\* dist 772-796: the content lines from line k on
RECURSIVE BoxLines(_, _, _, _)
BoxLines(c, options, cell, k) ==
  IF k > Len(cell) \/ Failed(c) THEN c
  ELSE LET el == BoxElements(options.style)
           c1 == _queue(c, Spaces(options.marginLeft) \o <<el[6]>>
                           \o Spaces(options.paddingLeft))
           c2 == _queue(c1, cell[k])
           c3 == _restoreState(c2)
           c4 == _queue(c3, <<27, 29, 116, _getCodepageIdentifier("cp437")>>)
           c5 == _queue(c4, Spaces(options.paddingRight) \o <<el[6]>>
                            \o Spaces(options.marginRight))
       IN BoxLines(newline(c5), options, cell, k + 1)

\* dist 709-723: the styles restored, cp437 selected and the top border,
\* unless the forced newline threw
BoxTop(c, options) ==
  LET el == BoxElements(options.style)
  IN IF Failed(c) THEN c
     ELSE newline(
            _queue(_queue(_restoreState(c),
                          <<27, 29, 116, _getCodepageIdentifier("cp437")>>),
                   Spaces(options.marginLeft) \o <<el[1]>>
                   \o Fill(BoxWidth(c, options) - 2, el[5]) \o <<el[2]>>
                   \o Spaces(options.marginRight)))

\* dist 772-796: the lines of the contents between the side borders
BoxCell(content, options) ==
  BoxLines(content.ctx, options, content.cell, 1)

\* dist 725-796: the contents, unless the top border threw
BoxContents(c, options, contents) ==
  IF Failed(c) THEN c
  ELSE BoxCell(CellOf(c, BoxInner(c, options), options.align, contents),
               options)

\* dist 798-808: the bottom border, unless the contents threw
BoxBottom(c, options) ==
  LET el == BoxElements(options.style)
  IN IF Failed(c) THEN c
     ELSE newline(_restoreState(
            _queue(c, Spaces(options.marginLeft) \o <<el[3]>>
                      \o Fill(BoxWidth(c, options) - 2, el[5]) \o <<el[4]>>
                      \o Spaces(options.marginRight))))

\* box(options, contents)
boxMutantNeverNewline(c, options, contents) ==
  BoxBottom(BoxContents(BoxTop(c, options), options, contents), options)

box(c, options, contents) ==
  BoxBottom(BoxContents(BoxTop(IF c.cursor # 0 THEN newline(c) ELSE c,
                               options),
                        options, contents),
            options)

\* ------------------------------------------------- barcode, qrcode, pulse
symbologies ==
  [s \in {"upce", "upca", "ean8", "ean13", "code39", "itf", "code128",
          "code93", "nw-7", "gs1-128", "gs1-databar-omni",
          "gs1-databar-truncated", "gs1-databar-limited",
          "gs1-databar-expanded"} |->
     CASE s = "upce" -> 0 [] s = "upca" -> 1 [] s = "ean8" -> 2
       [] s = "ean13" -> 3 [] s = "code39" -> 4 [] s = "itf" -> 5
       [] s = "code128" -> 6 [] s = "code93" -> 7 [] s = "nw-7" -> 8
       [] s = "gs1-128" -> 9 [] s = "gs1-databar-omni" -> 10
       [] s = "gs1-databar-truncated" -> 11
       [] s = "gs1-databar-limited" -> 12
       [] s = "gs1-databar-expanded" -> 13]

\* A value written into the Uint8Array of encode(): modulo 2^8
ToUint8(n) == n % 256

\* barcode(value, symbology, height)
barcode(c, value, symbology, h) ==
  IF c.embedded
  THEN Throw(c, "Barcodes are not supported in table cells or boxes")
  ELSE IF In(symbology, symbologies)
  THEN _flush(_queue(c, <<27, 98>> \o Item(symbology, symbologies)
                        \o <<1, 3, ToUint8(h)>>
                        \o CodepageEncode(value, "ascii") \o <<30>>))
  ELSE Throw(c, "Symbology not supported by printer")

\* qrcode(value, model, size, errorlevel): model and size are optional
\* arguments, errorlevel a name or "undefined".  The bytes queued before a
\* throw stay queued.  The quotient length / 0xff and a size x.5 are
\* truncated when encode() writes them into the Uint8Array.
errorlevels == [l |-> 0, m |-> 1, q |-> 2, h |-> 3]

qrcodeMutantLevelBeforeSize(c, value, model, size, errorlevel) ==
  LET m == IF model.t = "undefined" THEN Num(2) ELSE model
      sz == IF size.t = "undefined" THEN Num(6) ELSE size
      el == IF errorlevel = "undefined" THEN "m" ELSE errorlevel
      bytes == CodepageEncode(value, "iso88591")
      length == Len(bytes)
      c1 == _queue(c, <<10>>)
      c2 == _queue(c1, <<27, 29, 121, 83, 48, m.n>>)
      c3 == _queue(c2, <<27, 29, 121, 83, 50, Twice(sz) \div 2>>)
      c4 == _queue(_queue(c2, <<27, 29, 121, 83, 49>>
                                \o Item(el, errorlevels)),
                   <<27, 29, 121, 83, 50, Twice(sz) \div 2>>)
      c5 == _queue(c4, <<27, 29, 121, 68, 49, 0, ToUint8(length % 255),
                         ToUint8(length \div 255)>> \o bytes)
      c6 == _queue(c5, <<27, 29, 121, 80>>)
  IN IF c.embedded
     THEN Throw(c, "QR codes are not supported in table cells or boxes")
     ELSE IF ~(m.t = "number" /\ m.n \in {1, 2})
     THEN Throw(c1, "Model must be 1 or 2")
     ELSE IF ~IsNumber(sz) THEN Throw(c2, "Size must be a number")
     ELSE IF Twice(sz) < 2 \/ Twice(sz) > 16
     THEN Throw(c2, "Size must be between 1 and 8")
     ELSE IF ~In(el, errorlevels)
     THEN Throw(c3, "Error level must be l, m, q or h")
     ELSE _flush(c6)

qrcode(c, value, model, size, errorlevel) ==
  LET m == IF model.t = "undefined" THEN Num(2) ELSE model
      sz == IF size.t = "undefined" THEN Num(6) ELSE size
      el == IF errorlevel = "undefined" THEN "m" ELSE errorlevel
      bytes == CodepageEncode(value, "iso88591")
      length == Len(bytes)
      c1 == _queue(c, <<10>>)
      c2 == _queue(c1, <<27, 29, 121, 83, 48, m.n>>)
      c3 == _queue(c2, <<27, 29, 121, 83, 50, Twice(sz) \div 2>>)
      c4 == _queue(c3, <<27, 29, 121, 83, 49>> \o Item(el, errorlevels))
      c5 == _queue(c4, <<27, 29, 121, 68, 49, 0, ToUint8(length % 255),
                         ToUint8(length \div 255)>> \o bytes)
      c6 == _queue(c5, <<27, 29, 121, 80>>)
  IN IF c.embedded
     THEN Throw(c, "QR codes are not supported in table cells or boxes")
     ELSE IF ~(m.t = "number" /\ m.n \in {1, 2})
     THEN Throw(c1, "Model must be 1 or 2")
     ELSE IF ~IsNumber(sz) THEN Throw(c2, "Size must be a number")
     ELSE IF Twice(sz) < 2 \/ Twice(sz) > 16
     THEN Throw(c2, "Size must be between 1 and 8")
     ELSE IF ~In(el, errorlevels)
     THEN Throw(c3, "Error level must be l, m, q or h")
     ELSE _flush(c6)

\* pulse(device, on, off): device 0 or 1, on and off in milliseconds
\* (Math.round of a non-negative tenth rounds half up)
pulse(c, device, on, off) ==
  LET onT == IF (on + 5) \div 10 < 127 THEN (on + 5) \div 10 ELSE 127
      offT == IF (off + 5) \div 10 < 127 THEN (off + 5) \div 10 ELSE 127
  IN IF c.embedded
     THEN Throw(c, "Pulse is not supported in table cells or boxes")
     ELSE _queue(c, <<27, 7, onT, offT, IF device # 0 THEN 26 ELSE 7>>)

\* size(value)
size(c, value) ==
  _queue(c, <<27, 30, 70,
              IF value = "smaller" THEN 2 ELSE IF value = "small" THEN 1 ELSE 0>>)

\* ------------------------------------------------------------------ image
\* The image after flattening and dithering is the set of its dark pixels:
\* getPixel(x, y) is 1 exactly for the pixels of dark.
getPixel(dark, x, y) == IF <<x, y>> \in dark THEN 1 ELSE 0

\* the byte of column x for the eight rows from row y on, first row in the
\* most significant bit
PackByteMutantLsbFirst(dark, x, y) ==
  getPixel(dark, x, y) + getPixel(dark, x, y + 1) * 2
  + getPixel(dark, x, y + 2) * 4 + getPixel(dark, x, y + 3) * 8
  + getPixel(dark, x, y + 4) * 16 + getPixel(dark, x, y + 5) * 32
  + getPixel(dark, x, y + 6) * 64 + getPixel(dark, x, y + 7) * 128

PackByte(dark, x, y) ==
  getPixel(dark, x, y) * 128 + getPixel(dark, x, y + 1) * 64
  + getPixel(dark, x, y + 2) * 32 + getPixel(dark, x, y + 3) * 16
  + getPixel(dark, x, y + 4) * 8 + getPixel(dark, x, y + 5) * 4
  + getPixel(dark, x, y + 6) * 2 + getPixel(dark, x, y + 7)

BandBytes(dark, w, y) ==
  [i \in 1..(w * 3) |->
     PackByte(dark, (i - 1) \div 3, y + 8 * ((i - 1) % 3))]

\* dist 1015-1059: the bands from band s on
RECURSIVE ImageBands(_, _, _, _, _)
ImageBands(c, dark, w, h, s) ==
  IF s * 24 >= h THEN c
  ELSE ImageBands(_queue(c, <<27, 88, w % 256, (w \div 256) % 256>>
                            \o BandBytes(dark, w, s * 24) \o <<10, 13>>),
                  dark, w, h, s + 1)

\* image(element, width, height, algorithm, threshold)
imageMutantHeightOf8(c, dark, w, h) ==
  IF c.embedded
  THEN Throw(c, "Images are not supported in table cells or boxes")
  ELSE IF w % 8 # 0 THEN Throw(c, "Width must be a multiple of 8")
  ELSE IF h % 8 # 0 THEN Throw(c, "Height must be a multiple of 24")
  ELSE _flush(_queue(ImageBands(_queue(c, <<27, 48>>), dark, w, h, 0),
                     <<27, 122, 1>>))

image(c, dark, w, h) ==
  IF c.embedded
  THEN Throw(c, "Images are not supported in table cells or boxes")
  ELSE IF w % 8 # 0 THEN Throw(c, "Width must be a multiple of 8")
  ELSE IF h % 24 # 0 THEN Throw(c, "Height must be a multiple of 24")
  ELSE _flush(_queue(ImageBands(_queue(c, <<27, 48>>), dark, w, h, 0),
                     <<27, 122, 1>>))

\* ---------------------------------------------------------- state machine
\* enc     the encoder the caller holds
\* result  the bytes returned by the last encode()
\* last    the last call: its name, its arguments, the message it threw
\*         ("" when it returned) and the encoder before the call
\* nops    the number of calls made
VARIABLES enc, result, last, nops

vars == <<enc, result, last, nops>>

\* the options the encoder is constructed with
OptionSets ==
  { DefaultOptions,
    [DefaultOptions EXCEPT !.width = PaperWidth],
    [DefaultOptions EXCEPT !.width = PaperWidth, !.embedded = TRUE],
    [DefaultOptions EXCEPT !.embedded = TRUE] }

\* "a", "ab", "ab ab", e-acute
SA == <<97>>
SAB == <<97, 98>>
SABAB == <<97, 98, 32, 97, 98>>
SE == <<233>>

NoTable == [columns |-> <<>>, data |-> <<>>]

NoBox == [options |-> BoxOptions("single", 0, 0, 0, 0, 0, "undefined"),
          contents |-> NoCell]

NoQr == [model |-> Undef, size |-> Undef, errorlevel |-> "undefined"]

NoImage == [dark |-> {}, w |-> 0, h |-> 0]

Call(op, s, v, a) ==
  [op |-> op, s |-> s, v |-> v, a |-> a, tbl |-> NoTable, bx |-> NoBox,
   qr |-> NoQr, img |-> NoImage, err |-> "", pre |-> enc]

Init ==
  /\ enc \in {StarPrntEncoder(o) : o \in OptionSets}
  /\ result = <<>>
  /\ last = [Call("new", <<>>, Undef, "") EXCEPT !.pre = StarPrntEncoder(DefaultOptions)]
  /\ nops = 0

\* A call that returns the encoder for chaining: after is the context the
\* method leaves; a throw is caught by the caller, who keeps the encoder.
Step(call, after) ==
  /\ nops < MaxOps
  /\ enc' = [after EXCEPT !.err = ""]
  /\ last' = [call EXCEPT !.err = after.err]
  /\ nops' = nops + 1
  /\ UNCHANGED result

Text ==
  \E s \in {SA, SABAB, SE}, w \in {0, 2} :
    Step(Call("text", s, Num(w), ""), text(enc, s, w))

Newline == Step(Call("newline", <<>>, Undef, ""), newline(enc))

Line ==
  \E s \in {SAB, SABAB} :
    Step(Call("line", s, Num(0), ""), line(enc, s, 0))

Bold ==
  \E v \in {Undef, Bool(TRUE), Bool(FALSE)} :
    Step(Call("bold", <<>>, v, ""), bold(enc, v))

Underline ==
  \E v \in {Undef, Bool(TRUE), Bool(FALSE)} :
    Step(Call("underline", <<>>, v, ""), underline(enc, v))

Invert ==
  \E v \in {Undef, Bool(TRUE), Bool(FALSE)} :
    Step(Call("invert", <<>>, v, ""), invert(enc, v))

\* width(2), width(7), width(1.5), width("x")
Width ==
  \E v \in {Num(2), Num(7), Frac(3), Str(1)} :
    Step(Call("width", <<>>, v, ""), width(enc, v))

\* height(), height(3), height(0), height(2.5), height("x")
Height ==
  \E v \in {Undef, Num(3), Num(0), Frac(5), Str(1)} :
    Step(Call("height", <<>>, v, ""), height(enc, v))

Align ==
  \E a \in {"left", "center", "right", "justify", "toString"} :
    Step(Call("align", <<>>, Undef, a), align(enc, a))

Codepage ==
  \E a \in {"cp437", "auto", "cp850", "klingon"} :
    Step(Call("codepage", <<>>, Undef, a), codepage(enc, a))

Raw == Step(Call("raw", <<28, 46>>, Undef, ""), raw(enc, <<28, 46>>))

Initialize == Step(Call("initialize", <<>>, Undef, ""), initialize(enc))

Barcode ==
  \E a \in {"ean13", "gs1-databar-expanded", "qr", "toString"} :
    Step(Call("barcode", SAB, Num(60), a), barcode(enc, SAB, a, 60))

\* the arguments model, size and errorlevel of the qrcode() calls
QrArgs ==
  { NoQr,
    [model |-> Num(1), size |-> Num(8), errorlevel |-> "h"],
    [NoQr EXCEPT !.model = Num(3)],
    [NoQr EXCEPT !.size = Num(9)],
    [NoQr EXCEPT !.size = Str(1)],
    [NoQr EXCEPT !.size = Frac(3)],
    [NoQr EXCEPT !.errorlevel = "x"],
    [NoQr EXCEPT !.errorlevel = "toString"] }

\* the payloads: "ab", and MaxPayload - 1 and MaxPayload times "a"
QrPayloads == {SAB, Fill(MaxPayload - 1, 97), Fill(MaxPayload, 97)}

Qrcode ==
  \E q \in QrArgs, s \in QrPayloads :
    /\ (q = NoQr \/ s = SAB)
    /\ Step([Call("qrcode", s, Undef, "") EXCEPT !.qr = q],
            qrcode(enc, s, q.model, q.size, q.errorlevel))

Cut ==
  \E a \in {"undefined", "full", "partial"} :
    Step(Call("cut", <<>>, Undef, a), cut(enc, a))

\* pulse() with the defaults and pulse(1, 2000, 14)
Pulse ==
  \E d \in {0, 1} :
    Step(Call("pulse", <<>>, Num(d), ""),
         pulse(enc, d, IF d = 0 THEN 200 ELSE 2000, IF d = 0 THEN 200 ELSE 14))

\* the images: 8 x 24 all white, 8 x 24 with one dark pixel at (0, 0),
\* 8 x 48 with dark pixels in both bands, and the sizes 12 x 24, 8 x 32
\* and 8 x 8 with one dark pixel
ImageArgs ==
  { [dark |-> {}, w |-> 8, h |-> 24],
    [dark |-> {<<0, 0>>}, w |-> 8, h |-> 24],
    [dark |-> {<<1, 9>>, <<2, 30>>, <<7, 47>>}, w |-> 8, h |-> 48],
    [dark |-> {<<0, 0>>}, w |-> 12, h |-> 24],
    [dark |-> {<<0, 0>>}, w |-> 8, h |-> 32],
    [dark |-> {<<0, 0>>}, w |-> 8, h |-> 8] }

Image ==
  \E i \in ImageArgs :
    Step([Call("image", <<>>, Undef, "") EXCEPT !.img = i],
         image(enc, i.dark, i.w, i.h))

Encode ==
  /\ nops < MaxOps
  /\ enc' = [encode(enc) EXCEPT !.err = ""]
  /\ result' = encodeResult(enc)
  /\ last' = [Call("encode", <<>>, Undef, "") EXCEPT !.err = encode(enc).err]
  /\ nops' = nops + 1

\* "aba", a word longer than a column of width 2
SABA == <<97, 98, 97>>

ColsA == << Column(3, 0, 0, "left", "undefined"),
            Column(2, 1, 0, "right", "bottom"),
            Column(2, 0, 1, "left", "top") >>

ColsB == << Column(4, 0, 1, "right", "top"),
            Column(2, 0, 0, "undefined", "undefined") >>

RowS == << StringCell(SABAB), StringCell(SA), StringCell(SAB) >>

RowF == << FunctionCell(<< Cmd("line", SA, Num(0), ""),
                           Cmd("bold", <<>>, Undef, ""),
                           Cmd("text", SAB, Num(0), "") >>),
           StringCell(SE) >>

RowX == << StringCell(SE), StringCell(SABA) >>

\* two callback cells: the first leaves bold and underline switched on
RowFF == << FunctionCell(<< Cmd("bold", <<>>, Undef, ""),
                            Cmd("underline", <<>>, Undef, ""),
                            Cmd("line", SA, Num(0), "") >>),
            FunctionCell(<< Cmd("text", SAB, Num(0), "") >>) >>

TableArgs ==
  { [columns |-> ColsA, data |-> <<RowS>>],
    [columns |-> ColsA, data |-> <<RowF>>],
    [columns |-> ColsA, data |-> <<RowX>>],
    [columns |-> ColsA, data |-> <<RowFF>>],
    [columns |-> ColsB, data |-> <<RowS, RowF>>],
    [columns |-> ColsB, data |-> << <<>>, RowS >>],
    [columns |-> ColsB, data |-> <<RowFF>>] }

BoxArgs ==
  { [options |-> BoxOptions("single", 5, 1, 0, 0, 1, "left"),
     contents |-> StringCell(SAB)],
    [options |-> BoxOptions("double", 6, 0, 0, 0, 0, "right"),
     contents |-> FunctionCell(<< Cmd("text", SA, Num(0), "") >>)],
    [options |-> BoxOptions("double", 6, 0, 1, 1, 0, "right"),
     contents |-> StringCell(SABAB)],
    [options |-> BoxOptions("single", 5, 0, 0, 0, 0, "undefined"),
     contents |-> FunctionCell(<< Cmd("text", SA, Num(0), "") >>)],
    [options |-> BoxOptions("single", 5, 0, 0, 0, 0, "undefined"),
     contents |-> StringCell(SA)] }

\* rule() and rule({style: 'double', width: 3})
Rule ==
  \E o \in {[style |-> "single", width |-> 0],
            [style |-> "double", width |-> 3]} :
    Step(Call("rule", <<>>, Num(o.width), o.style),
         rule(enc, o.style, o.width))

Table ==
  \E t \in TableArgs :
    Step([Call("table", <<>>, Undef, "") EXCEPT !.tbl = t],
         table(enc, t.columns, t.data))

Box ==
  \E b \in BoxArgs :
    Step([Call("box", <<>>, Undef, "") EXCEPT !.bx = b],
         box(enc, b.options, b.contents))

Next ==
  \/ Text \/ Newline \/ Line \/ Bold \/ Width \/ Align \/ Codepage \/ Raw
  \/ Initialize \/ Encode

Spec == Init /\ [][Next]_vars

\* The specification of the character size calls
NextSize == Width \/ Height \/ Text \/ Newline \/ Encode

SpecSize == Init /\ [][NextSize]_vars

\* The specification of the barcode, QR code, image, cut and pulse calls
NextCodes ==
  \/ Barcode \/ Qrcode \/ Image \/ Cut \/ Pulse \/ Text \/ Encode

SpecCodes == Init /\ [][NextCodes]_vars

\* The specification of the layout calls
NextLayout ==
  \/ Text \/ Newline \/ Codepage \/ Raw \/ Rule \/ Table \/ Box \/ Encode

SpecLayout == Init /\ [][NextLayout]_vars

\* The specification of the style calls
NextStyle == Bold \/ Underline \/ Invert \/ Text \/ Newline \/ Encode

SpecStyle == Init /\ [][NextStyle]_vars

\* The specification of aligned text in one context: align() with one of
\* the three alignments, text(), newline() and encode()
Alignment ==
  \E a \in {"left", "center", "right"} :
    Step(Call("align", <<>>, Undef, a), align(enc, a))

NextAligned == Alignment \/ Text \/ Newline \/ Encode

SpecAligned == Init /\ [][NextAligned]_vars

\* The specification of the automatic code page selection: encoders built
\* with the default candidates and with a candidate list whose first code
\* page, cp850, the character encoder supports and the mapping 'star' does
\* not define.
CandidatesUnmapped == <<"cp850", "cp852">>

AutoOptionSets ==
  { DefaultOptions,
    [DefaultOptions EXCEPT !.width = PaperWidth, !.embedded = TRUE],
    [DefaultOptions EXCEPT !.codepageCandidates = CandidatesUnmapped],
    [DefaultOptions EXCEPT !.width = PaperWidth, !.embedded = TRUE,
                           !.codepageCandidates = CandidatesUnmapped] }

InitAuto ==
  /\ enc \in {StarPrntEncoder(o) : o \in AutoOptionSets}
  /\ result = <<>>
  /\ last = [Call("new", <<>>, Undef, "")
               EXCEPT !.pre = StarPrntEncoder(DefaultOptions)]
  /\ nops = 0

\* e-acute then o-double-acute: two runs; "a" then e-acute: one run
SEO == <<233, 337>>
SAE == <<97, 233>>

TextRuns ==
  \E s \in {SEO, SAE} : Step(Call("text", s, Num(0), ""), text(enc, s, 0))

NextAuto == Codepage \/ Text \/ TextRuns \/ Newline \/ Encode

SpecAuto == InitAuto /\ [][NextAuto]_vars

\* ------------------------------------------------------------- properties
Returned == last.err = ""

Committed(c) == c.buffer \o c.queued

Ceil2(n) == (n + 1) \div 2

Floor2(n) == n \div 2

\* C1: in a context that is not embedded, the committed buffer followed by
\* the pending queue is at every moment the bytes handed to the queue, in
\* call order, and encode() returns exactly these bytes: no flush drops,
\* duplicates or reorders a fragment.
C1_FlushKeepsCallOrder ==
  /\ ~enc.embedded => Committed(enc) = enc.issued
  /\ (last.op = "encode" /\ Returned /\ ~last.pre.embedded)
       => result = last.pre.issued

\* a job with an intermediate flush and a pending queue has been encoded
C1_Witness ==
  /\ last.op = "encode" /\ Returned /\ ~last.pre.embedded
  /\ last.pre.buffer # <<>> /\ last.pre.queued # <<>>
  /\ result = last.pre.buffer \o last.pre.queued

C3_CodepageRemembered ==
  (last.op = "encode" /\ Returned)
    => \A s \in {SA, SE} : _encodeBytes(enc, s) = _encodeBytes(last.pre, s)

\* C4: a flush in an embedded context of width W with a whole cursor c <= W
\* commits the queue with exactly W - c spaces: after it for left, before it for
\* right, and for center floor((W - c) / 2) after and ceil((W - c) / 2)
\* before; a context that is not embedded commits the queue as it is.  This
\* holds of the flush of every state, and of the flushes made by newline()
\* and encode().
C4_Padding(c) ==
  LET n == (2 * c.options.width - c.cursor) \div 2
  IN IF ~c.embedded THEN c.queued
     ELSE IF c.state.align = "left" THEN c.queued \o Spaces(n)
     ELSE IF c.state.align = "right" THEN Spaces(n) \o c.queued
     ELSE Spaces(Ceil2(n)) \o c.queued \o Spaces(Floor2(n))

C4_Applies(c) ==
  c.embedded => /\ c.cursor % 2 = 0 /\ c.cursor \div 2 <= c.options.width
                /\ c.state.align \in {"left", "center", "right"}

C4_FlushPadding ==
  /\ C4_Applies(enc)
       => /\ ~Failed(_flush(enc))
          /\ _flush(enc).buffer = enc.buffer \o C4_Padding(enc)
          /\ Len(_flush(enc).buffer)
               = Len(enc.buffer) + Len(enc.queued)
                 + (IF enc.embedded
                    THEN enc.options.width - enc.cursor \div 2 ELSE 0)
  /\ (last.op = "newline" /\ C4_Applies(last.pre))
       => /\ Returned
          /\ enc.buffer = last.pre.buffer \o C4_Padding(last.pre)
  /\ (last.op = "encode" /\ C4_Applies(last.pre))
       => /\ Returned
          /\ result = last.pre.buffer \o C4_Padding(last.pre)

\* newline() has flushed a centered embedded line with an odd indent
C4_Witness ==
  /\ last.op = "newline" /\ Returned
  /\ last.pre.embedded /\ last.pre.state.align = "center"
  /\ last.pre.cursor > 0 /\ last.pre.queued # <<>>
  /\ last.pre.cursor % 2 = 0
  /\ (last.pre.options.width - last.pre.cursor \div 2) % 2 = 1

\* C5 as stated: with an empty queue and the cursor at 0, a flush leaves
\* the buffer, the queue and the cursor unchanged in every context.
C5_FlushIdempotentEverywhere ==
  (enc.queued = <<>> /\ enc.cursor = 0)
    => /\ _flush(enc).buffer = enc.buffer
       /\ _flush(enc).queued = enc.queued
       /\ _flush(enc).cursor = enc.cursor

\* C5 as amended: with an empty queue and the cursor at 0, a flush leaves
\* the queue and the cursor unchanged; it leaves the buffer unchanged in a
\* context that is not embedded, and appends W spaces to the buffer in an
\* embedded context of width W under each of the alignments left, center
\* and right (and nothing under a tracked alignment that is none of them).
C5_EmptyLine(c) ==
  IF c.embedded /\ c.state.align \in {"left", "center", "right"}
  THEN Spaces(c.options.width) ELSE <<>>

C5_FlushOfEmptyQueue ==
  /\ (enc.queued = <<>> /\ enc.cursor = 0)
       => /\ _flush(enc).queued = <<>> /\ _flush(enc).cursor = 0
          /\ _flush(enc).buffer = enc.buffer \o C5_EmptyLine(enc)
  /\ (last.op = "encode" /\ last.pre.queued = <<>> /\ last.pre.cursor = 0)
       => result = last.pre.buffer \o C5_EmptyLine(last.pre)

\* encode() has flushed an embedded context whose queue was empty
C5_Witness ==
  /\ last.op = "encode" /\ Returned
  /\ last.pre.queued = <<>> /\ last.pre.cursor = 0
  /\ last.pre.embedded /\ last.pre.buffer # <<>>
  /\ Len(result) = Len(last.pre.buffer) + last.pre.options.width

\* C6: bold, underline and invert called without an argument negate the
\* tracked flag and called with an argument set it; the bytes queued are
\* those of the new value; and from a context whose bold flag is off,
\* bold().text(s).bold() encodes to the bytes of
\* bold(true).text(s).bold(false).
C6_NewFlag(old) == IF last.v.t = "undefined" THEN ~old ELSE last.v.n = 1

C6_StyleToggle ==
  /\ last.op = "bold"
       => /\ enc.state.bold = C6_NewFlag(last.pre.state.bold)
          /\ enc.queued = last.pre.queued
               \o (IF enc.state.bold THEN <<27, 69>> ELSE <<27, 70>>)
  /\ last.op = "underline"
       => /\ enc.state.underline = C6_NewFlag(last.pre.state.underline)
          /\ enc.queued = last.pre.queued
               \o <<27, 45, IF enc.state.underline THEN 1 ELSE 0>>
  /\ last.op = "invert"
       => /\ enc.state.invert = C6_NewFlag(last.pre.state.invert)
          /\ enc.queued = last.pre.queued
               \o (IF enc.state.invert THEN <<27, 52>> ELSE <<27, 53>>)
  /\ ~enc.state.bold
       => \A s \in {SA, SABAB, SE} :
            encodeResult(Run(enc, << Cmd("bold", <<>>, Undef, ""),
                                     Cmd("text", s, Num(0), ""),
                                     Cmd("bold", <<>>, Undef, "") >>))
            = encodeResult(Run(enc, << Cmd("bold", <<>>, Bool(TRUE), ""),
                                       Cmd("text", s, Num(0), ""),
                                       Cmd("bold", <<>>, Bool(FALSE), "") >>))

\* bold().text("a").bold() has been called on a context with bold off
C6_Witness ==
  /\ last.op = "bold" /\ last.v.t = "undefined"
  /\ last.pre.state.bold /\ ~enc.state.bold
  /\ enc.queued = <<27, 69, 97, 27, 70>>

\* C7: line(s, wrap) leaves the context that text(s, wrap) followed by
\* newline() leaves, from every state; and in a context that is not
\* embedded the bytes encoded after line(s) are those encoded after text(s)
\* followed by 0x0A 0x0D.
C7_TextThenNewline(c, s, w) ==
  Run(c, << Cmd("text", s, Num(w), ""), Cmd("newline", <<>>, Undef, "") >>)

C7_LineIsTextNewline ==
  /\ last.op = "line"
       => /\ [enc EXCEPT !.err = last.err]
               = C7_TextThenNewline(last.pre, last.s, last.v.n)
          /\ ~last.pre.embedded
               => encodeResult(enc)
                    = encodeResult(text(last.pre, last.s, last.v.n))
                        \o <<10, 13>>
  /\ \A s \in {SA, SABAB}, w \in {0, 2} :
       /\ line(enc, s, w) = C7_TextThenNewline(enc, s, w)
       /\ ~enc.embedded
            => encodeResult(line(enc, s, w))
                 = encodeResult(text(enc, s, w)) \o <<10, 13>>

\* line() has been called with text that wraps, after earlier output
C7_Witness ==
  /\ last.op = "line" /\ Returned /\ ~last.pre.embedded
  /\ last.pre.cursor # 0
  /\ last.pre.options.width # NoWidth /\ last.s = SABAB
  /\ enc.queued = <<10, 13>>

\* C8: table() and box() begin with a forced newline() exactly when the
\* cursor is not 0.  With a cursor other than 0 the call leaves what it
\* leaves when made after newline(); and in a context that is not embedded
\* the bytes that follow the earlier ones begin with 0x0A 0x0D exactly when
\* the cursor was not 0.
C8_LayoutCall(c) ==
  IF last.op = "table" THEN table(c, last.tbl.columns, last.tbl.data)
  ELSE box(c, last.bx.options, last.bx.contents)

C8_IsPrefix(p, s) == Len(p) <= Len(s) /\ SubSeq(s, 1, Len(p)) = p

C8_NextTwo(before, after) ==
  IF Len(after) >= Len(before) + 2
  THEN SubSeq(after, Len(before) + 1, Len(before) + 2) ELSE <<>>

C8_ForcedNewline ==
  (last.op \in {"table", "box"} /\ Returned)
    => /\ last.pre.cursor # 0 => enc = C8_LayoutCall(newline(last.pre))
       /\ ~last.pre.embedded
            => /\ C8_IsPrefix(Committed(last.pre), Committed(enc))
               /\ (C8_NextTwo(Committed(last.pre), Committed(enc)) = <<10, 13>>)
                    <=> (last.pre.cursor # 0)

\* table() or box() has been called with the cursor away from column 0
C8_Witness ==
  /\ last.op \in {"table", "box"} /\ Returned
  /\ last.pre.cursor # 0 /\ ~last.pre.embedded
  /\ C8_NextTwo(Committed(last.pre), Committed(enc)) = <<10, 13>>

\* the same calls made with the cursor at column 0
C8_WitnessAtZero ==
  /\ last.op \in {"table", "box"} /\ Returned
  /\ last.pre.cursor = 0 /\ Committed(last.pre) # <<>>

\* The string cells of the last table() call whose wrapped lines fit the
\* column: row r, column k.
C9_Cells ==
  { rk \in (1..Len(last.tbl.data)) \X (1..Len(last.tbl.columns)) :
      /\ CellAt(last.tbl.data[rk[1]], rk[2]).t = "string"
      /\ \A ln \in DOMAIN linewrap(last.tbl.columns[rk[2]].width, "default",
                                   CellAt(last.tbl.data[rk[1]], rk[2]).s) :
           Len(linewrap(last.tbl.columns[rk[2]].width, "default",
                        CellAt(last.tbl.data[rk[1]], rk[2]).s)[ln])
             <= last.tbl.columns[rk[2]].width }

C9_Wrapped(rk) ==
  linewrap(last.tbl.columns[rk[2]].width, "default",
           CellAt(last.tbl.data[rk[1]], rk[2]).s)

C9_Fragments(rk) ==
  CellOf(last.pre, last.tbl.columns[rk[2]].width,
         last.tbl.columns[rk[2]].align,
         CellAt(last.tbl.data[rk[1]], rk[2])).cell

\* the text of a line followed, or for align 'right' preceded, by spaces
C9_PaddedTo(bytes, rk) ==
  IF last.tbl.columns[rk[2]].align = "right"
  THEN Spaces(last.tbl.columns[rk[2]].width - Len(bytes)) \o bytes
  ELSE bytes \o Spaces(last.tbl.columns[rk[2]].width - Len(bytes))

\* a byte string without its code page selects 0x1B 0x1D 0x74 n
RECURSIVE C9_Printable(_)
C9_Printable(bytes) ==
  IF bytes = <<>> THEN <<>>
  ELSE IF Len(bytes) >= 4 /\ SubSeq(bytes, 1, 3) = <<27, 29, 116>>
  THEN C9_Printable(SubSeq(bytes, 5, Len(bytes)))
  ELSE <<Head(bytes)>> \o C9_Printable(Tail(bytes))

RECURSIVE C9_Concat(_)
C9_Concat(ss) == IF ss = <<>> THEN <<>> ELSE Head(ss) \o C9_Concat(Tail(ss))

\* the bytes of the characters of a line in 'auto' mode, run after run
C9_AutoText(str) ==
  C9_Concat([i \in DOMAIN autoEncode(str, codepageCandidates) |->
             autoEncode(str, codepageCandidates)[i].bytes])

\* C9 as stated: a string cell whose wrapped lines fit the column gives one
\* fragment for every wrapped line, each exactly the column width long: the
\* encoded text followed by spaces, or for align 'right' preceded by them.
C9_StringCellExactWidth ==
  last.op = "table"
    => \A rk \in C9_Cells :
         /\ Len(C9_Fragments(rk)) = Len(C9_Wrapped(rk))
         /\ \A f \in DOMAIN C9_Fragments(rk) :
              /\ Len(C9_Fragments(rk)[f]) = last.tbl.columns[rk[2]].width
              /\ C9_Fragments(rk)[f]
                   = C9_PaddedTo(_encodeBytes(last.pre, C9_Wrapped(rk)[f]), rk)

\* C9 as amended: such a cell gives one fragment for every wrapped line.
\* With a code page other than 'auto' every fragment is exactly the column
\* width long, the encoded text followed (for align 'right' preceded) by
\* spaces.  With the code page 'auto' every fragment holds these column
\* width bytes together with a 4-byte code page select before every run,
\* the first at the start of the fragment, so it is longer than the column.
C9_StringCellPadding ==
  last.op = "table"
    => \A rk \in C9_Cells :
         /\ Len(C9_Fragments(rk)) = Len(C9_Wrapped(rk))
         /\ \A f \in DOMAIN C9_Fragments(rk) :
              IF last.pre.codepage # "auto"
              THEN /\ Len(C9_Fragments(rk)[f]) = last.tbl.columns[rk[2]].width
                   /\ C9_Fragments(rk)[f]
                        = C9_PaddedTo(CodepageEncode(C9_Wrapped(rk)[f],
                                                     last.pre.codepage), rk)
              ELSE /\ C9_Printable(C9_Fragments(rk)[f])
                        = C9_PaddedTo(C9_AutoText(C9_Wrapped(rk)[f]), rk)
                   /\ Len(C9_Printable(C9_Fragments(rk)[f]))
                        = last.tbl.columns[rk[2]].width
                   /\ Len(C9_Fragments(rk)[f])
                        = last.tbl.columns[rk[2]].width
                          + 4 * Len(autoEncode(C9_PaddedTo(C9_Wrapped(rk)[f], rk),
                                               codepageCandidates))
                   /\ SubSeq(C9_Fragments(rk)[f], 1, 3) = <<27, 29, 116>>

\* table() has been called with a right-aligned string cell that wraps to
\* two lines shorter than its column
C9_Witness ==
  /\ last.op = "table" /\ Returned
  /\ \E rk \in C9_Cells :
       /\ last.tbl.columns[rk[2]].align = "right"
       /\ Len(C9_Wrapped(rk)) = 2
       /\ Len(C9_Wrapped(rk)[1]) < last.tbl.columns[rk[2]].width

\* C10: after the vertical padding every column of a row holds maxLines
\* fragments, maxLines being the largest line count of the cells of the
\* row; a shorter cell has blank lines of column-width spaces before its
\* own lines for verticalAlign 'bottom' and after them otherwise.
C10_Cells(r) ==
  RowCells([ctx |-> last.pre, lines |-> <<>>], last.tbl.columns,
           last.tbl.data[r], 1).lines

C10_Padded(r) == PadRow(C10_Cells(r), last.tbl.columns, MaxLen(C10_Cells(r)))

C10_Blank(r, k, n) == [p \in 1..n |-> Spaces(last.tbl.columns[k].width)]

C10_VerticalPadding ==
  (last.op = "table" /\ Returned)
    => \A r \in DOMAIN last.tbl.data :
         LET cells == C10_Cells(r)
             padded == C10_Padded(r)
             maxLines == MaxLen(cells)
         IN /\ \A k \in DOMAIN cells : Len(cells[k]) <= maxLines
            /\ \E k \in DOMAIN cells : Len(cells[k]) = maxLines
            /\ \A k \in DOMAIN last.tbl.columns :
                 /\ Len(padded[k]) = maxLines
                 /\ padded[k]
                      = IF last.tbl.columns[k].verticalAlign = "bottom"
                        THEN C10_Blank(r, k, maxLines - Len(cells[k])) \o cells[k]
                        ELSE cells[k] \o C10_Blank(r, k, maxLines - Len(cells[k]))

\* table() has been called with a row in which one shorter cell is padded
\* at the top and a row in which one is padded at the bottom
C10_Witness ==
  /\ last.op = "table" /\ Returned
  /\ \E r \in DOMAIN last.tbl.data : \E k \in DOMAIN last.tbl.columns :
       /\ Len(C10_Cells(r)[k]) < MaxLen(C10_Cells(r))
       /\ Len(C10_Cells(r)[k]) > 0
       /\ last.tbl.columns[k].verticalAlign # "bottom"
       /\ C10_Padded(r)[k][1] = C10_Cells(r)[k][1]
  /\ \E r \in DOMAIN last.tbl.data : \E k \in DOMAIN last.tbl.columns :
       /\ Len(C10_Cells(r)[k]) < MaxLen(C10_Cells(r))
       /\ Len(C10_Cells(r)[k]) > 0
       /\ last.tbl.columns[k].verticalAlign = "bottom"
       /\ C10_Padded(r)[k][1] = Spaces(last.tbl.columns[k].width)

\* C11: align(v) throws 'Unknown alignment' and changes nothing when v is
\* not one of left, center, right; otherwise it returns, records v as the
\* tracked alignment and queues 1B 1D 61 code (left 0, center 1, right 2)
\* exactly when the context is not embedded.
C11_Bytes(c, v) ==
  IF c.embedded THEN <<>>
  ELSE <<27, 29, 97, CASE v = "left" -> 0 [] v = "center" -> 1 [] OTHER -> 2>>

C11_AlignContract ==
  last.op = "align"
    => IF last.a \in {"left", "center", "right"}
       THEN /\ Returned
            /\ enc = [last.pre EXCEPT !.state.align = last.a,
                                      !.queued = @ \o C11_Bytes(last.pre, last.a),
                                      !.issued = @ \o C11_Bytes(last.pre, last.a)]
       ELSE /\ last.err = "Unknown alignment"
            /\ enc = last.pre

\* C12: codepage('auto') is accepted and queues no byte; a name the
\* character encoder does not know throws 'Unknown codepage'; a known name
\* without an entry in the printer mapping throws 'Codepage not supported by
\* printer'; a failed call changes nothing; every name of the mapping queues
\* exactly 1B 1D 74 id(name) and is the code page later text is encoded in.
C12_After(c, cp) ==
  IF cp = "auto" THEN [c EXCEPT !.codepage = "auto"]
  ELSE [c EXCEPT !.codepage = cp,
                 !.state.codepage = codepageMappings[cp],
                 !.queued = @ \o <<27, 29, 116, codepageMappings[cp]>>,
                 !.issued = @ \o <<27, 29, 116, codepageMappings[cp]>>]

C12_Message(cp) ==
  IF cp = "auto" \/ cp \in DOMAIN codepageMappings THEN ""
  ELSE IF supports(cp) THEN "Codepage not supported by printer"
  ELSE "Unknown codepage"

C12_Call(c, cp, after, message) ==
  /\ message = C12_Message(cp)
  /\ message # "" => after = c
  /\ message = ""
       => /\ after = C12_After(c, cp)
          /\ cp # "auto"
               => \A s \in {SA, SE, <<97, 337, 3585>>} :
                    _encodeBytes(after, s) = CodepageEncode(s, cp)

C13_Value == IF last.v.t = "undefined" THEN Num(1) ELSE last.v

C13_Message ==
  IF ~IsNumber(C13_Value)
  THEN (IF last.op = "width" THEN "Width must be a number"
        ELSE "Height must be a number")
  ELSE IF Twice(C13_Value) < 2 * 1 \/ Twice(C13_Value) > 2 * 6
  THEN (IF last.op = "width" THEN "Width must be between 1 and 6"
        ELSE "Height must be between 1 and 6")
  ELSE ""

C13_Select ==
  <<27, 105, (enc.state.height - 2) \div 2, (enc.state.width - 2) \div 2>>

C13_SizeContract ==
  last.op \in {"width", "height"}
    => /\ last.err = C13_Message
       /\ last.err # "" => enc = last.pre
       /\ last.err = ""
            => /\ enc.state.width = (IF last.op = "width" THEN Twice(C13_Value)
                                     ELSE last.pre.state.width)
               /\ enc.state.height = (IF last.op = "height"
                                      THEN Twice(C13_Value)
                                      ELSE last.pre.state.height)
               /\ enc = [last.pre EXCEPT !.state.width = enc.state.width,
                                         !.state.height = enc.state.height,
                                         !.queued = @ \o C13_Select,
                                         !.issued = @ \o C13_Select]

\* height(3) has returned after a width(2): the bytes are 1B 69 02 01
C13_Witness ==
  /\ last.op = "height" /\ last.v = Num(3) /\ Returned
  /\ last.pre.state.width = 2 * 2
  /\ enc.queued = last.pre.queued \o <<27, 105, 2, 1>>

\* C14: in every reachable state the tracked width and height multipliers
\* are whole numbers in [1, 6] (the fields hold twice the multiplier).
C14_MultipliersInRange ==
  /\ enc.state.width \in {2 * k : k \in 1..6}
  /\ enc.state.height \in {2 * k : k \in 1..6}

\* C15: barcode, qrcode, image, cut and pulse each throw when called on an
\* embedded context, before a byte is queued or any state of the context is
\* changed.  This holds of the call made, and of each of the five calls at
\* every reachable embedded context.
C15_Message(op) ==
  CASE op = "barcode" -> "Barcodes are not supported in table cells or boxes"
    [] op = "qrcode" -> "QR codes are not supported in table cells or boxes"
    [] op = "image" -> "Images are not supported in table cells or boxes"
    [] op = "cut" -> "Cut is not supported in table cells or boxes"
    [] op = "pulse" -> "Pulse is not supported in table cells or boxes"

C15_Rejected(c, after) == after = Throw(c, after.err) /\ Failed(after)

C15_EmbeddedThrows ==
  /\ (last.op \in {"barcode", "qrcode", "image", "cut", "pulse"}
        /\ last.pre.embedded)
       => last.err = C15_Message(last.op) /\ enc = last.pre
  /\ enc.embedded
       => /\ C15_Rejected(enc, barcode(enc, SAB, "ean13", 60))
          /\ C15_Rejected(enc, qrcode(enc, SAB, Undef, Undef, "undefined"))
          /\ C15_Rejected(enc, image(enc, {<<0, 0>>}, 8, 24))
          /\ C15_Rejected(enc, cut(enc, "partial"))
          /\ C15_Rejected(enc, pulse(enc, 0, 200, 200))

\* cut() has thrown on an embedded context that held text in its queue
C15_Witness ==
  /\ last.op = "cut" /\ last.pre.embedded
  /\ last.pre.queued # <<>> /\ last.pre.cursor # 0
  /\ last.err = "Cut is not supported in table cells or boxes"
  /\ enc = last.pre

\* C16: text(s) does not fail on a character it cannot encode.  With no
\* code page selected, and where the text is not wrapped, every character
\* of s gives exactly one byte, its ASCII value when it has one and 0x3F
\* otherwise, so text queues as many bytes as s has characters.  This holds
\* of the call made and of text() applied at every reachable state.
C16_Bytes(s) == [i \in 1..Len(s) |-> IF s[i] < 128 THEN s[i] ELSE 63]

C16_Plain(c, s, wrap) == c.codepage = "ascii" /\ _wrap(c, s, wrap) = <<s>>

C16_Text(c, s, after) ==
  /\ ~Failed(after)
  /\ after.queued = c.queued \o C16_Bytes(s)
  /\ Len(after.queued) = Len(c.queued) + Len(s)
  /\ after.buffer = c.buffer

C17_Command ==
  <<27, 98, symbologies[last.a], 1, 3, last.v.n>>
    \o [i \in 1..Len(last.s) |-> IF last.s[i] < 128 THEN last.s[i] ELSE 63]
    \o <<30>>

C17_BarcodeContract ==
  (last.op = "barcode" /\ ~last.pre.embedded)
    => IF last.a \in DOMAIN symbologies
       THEN /\ Returned
            /\ enc = [last.pre EXCEPT
                        !.buffer = @ \o last.pre.queued \o C17_Command,
                        !.issued = @ \o C17_Command,
                        !.queued = <<>>,
                        !.cursor = 0]
       ELSE /\ last.err = "Symbology not supported by printer"
            /\ enc = last.pre

\* C18: a successful qrcode(value, model, size, errorlevel), its arguments
\* being a model 1 or 2, a whole size in 1..8 and a level l, m, q or h (or
\* omitted: model 2, size 6, level m), emits in this order the byte 0A,
\* 1B 1D 79 53 30 model, 1B 1D 79 53 32 size, 1B 1D 79 53 31 level,
\* the data block 1B 1D 79 44 31 00 nL nH with the payload bytes, and the
\* print trigger 1B 1D 79 50.
C18_Model == IF last.qr.model.t = "undefined" THEN 2 ELSE last.qr.model.n

C18_Size == IF last.qr.size.t = "undefined" THEN 6 ELSE last.qr.size.n

C18_Level ==
  CASE last.qr.errorlevel = "l" -> 0
    [] last.qr.errorlevel \in {"m", "undefined"} -> 1
    [] last.qr.errorlevel = "q" -> 2
    [] last.qr.errorlevel = "h" -> 3

C18_Valid ==
  /\ last.qr.model.t \in {"undefined", "number"} /\ C18_Model \in {1, 2}
  /\ last.qr.size.t \in {"undefined", "number"} /\ C18_Size \in 1..8
  /\ last.qr.errorlevel \in {"l", "m", "q", "h", "undefined"}

C18_Payload ==
  [i \in 1..Len(last.s) |-> IF last.s[i] < 256 THEN last.s[i] ELSE 63]

C18_Head ==
  <<10>> \o <<27, 29, 121, 83, 48, C18_Model>>
         \o <<27, 29, 121, 83, 50, C18_Size>>
         \o <<27, 29, 121, 83, 49, C18_Level>>
         \o <<27, 29, 121, 68, 49, 0>>

\* the bytes the call has added to the buffer
C18_Emitted ==
  SubSeq(enc.buffer, Len(last.pre.buffer) + Len(last.pre.queued) + 1,
         Len(enc.buffer))

C18_QrcodeOrder ==
  (last.op = "qrcode" /\ ~last.pre.embedded /\ C18_Valid)
    => /\ Returned
       /\ enc.queued = <<>>
       /\ SubSeq(enc.buffer, 1, Len(last.pre.buffer) + Len(last.pre.queued))
            = last.pre.buffer \o last.pre.queued
       /\ Len(C18_Emitted) = Len(C18_Head) + 2 + Len(last.s) + 4
       /\ SubSeq(C18_Emitted, 1, Len(C18_Head)) = C18_Head
       /\ SubSeq(C18_Emitted, Len(C18_Head) + 3,
                 Len(C18_Head) + 2 + Len(last.s)) = C18_Payload
       /\ SubSeq(C18_Emitted, Len(C18_Emitted) - 3, Len(C18_Emitted))
            = <<27, 29, 121, 80>>

\* qrcode('ab', 1, 8, 'h') has returned after text, and so has a qrcode
\* call with the defaults: 02, 06 and 01 are the bytes selected
C18_Witness ==
  /\ last.op = "qrcode" /\ Returned /\ C18_Valid
  /\ last.qr = [model |-> Num(1), size |-> Num(8), errorlevel |-> "h"]
  /\ last.pre.queued # <<>>
  /\ qrcode(last.pre, SAB, Undef, Undef, "undefined").issued
       = last.pre.issued
           \o <<10, 27, 29, 121, 83, 48, 2, 27, 29, 121, 83, 50, 6,
                27, 29, 121, 83, 49, 1, 27, 29, 121, 68, 49, 0, 2, 0,
                97, 98, 27, 29, 121, 80>>

\* C19: qrcode() fails, with an error of its own for each parameter, unless
\* the model is 1 or 2, the size is an integer in 1..8 and the error level
\* is one of l, m, q, h (an omitted parameter takes its default); a size
\* such as 1.5 is rejected.
C19_ModelOk ==
  last.qr.model.t = "undefined"
    \/ (last.qr.model.t = "number" /\ last.qr.model.n \in {1, 2})

C19_SizeOk ==
  last.qr.size.t = "undefined"
    \/ (last.qr.size.t = "number" /\ last.qr.size.n \in 1..8)

C19_LevelOk == last.qr.errorlevel \in {"l", "m", "q", "h", "undefined"}

C19_QrcodeValidation ==
  (last.op = "qrcode" /\ ~last.pre.embedded)
    => /\ ~C19_ModelOk => last.err = "Model must be 1 or 2"
       /\ (C19_ModelOk /\ ~C19_SizeOk)
            => last.err \in {"Size must be a number",
                             "Size must be between 1 and 8"}
       /\ (C19_ModelOk /\ C19_SizeOk /\ ~C19_LevelOk)
            => last.err = "Error level must be l, m, q or h"
       /\ (C19_ModelOk /\ C19_SizeOk /\ C19_LevelOk) => Returned

\* C20: after a successful qrcode() of a payload of L bytes, the two length
\* bytes of the data block are L mod 256 and floor(L / 256): the first plus
\* 256 times the second is L, at L = 255 and L = 256 in particular.
C20_LengthBytes ==
  (last.op = "qrcode" /\ Returned)
    => LET at == Len(enc.buffer) - 4 - Len(last.s)
       IN /\ enc.buffer[at - 1] = Len(last.s) % 256
          /\ enc.buffer[at] = Len(last.s) \div 256
          /\ enc.buffer[at - 1] + 256 * enc.buffer[at] = Len(last.s)

\* C21: image(el, w, h) on a context that is not embedded throws a dimension
\* error whenever w is not a multiple of 8 or h is not a multiple of 24,
\* with no byte queued, and raises no dimension error when w % 8 = 0 and
\* h % 24 = 0.
C21_DimensionErrors ==
  {"Width must be a multiple of 8", "Height must be a multiple of 24"}

C22_HeightMultipleOf8 ==
  (last.op = "image" /\ ~last.pre.embedded
     /\ last.img.w % 8 = 0 /\ last.img.h % 8 = 0)
    => last.err \notin C21_DimensionErrors

\* C23: a successful image(el, w, h) emits 1B 30, then exactly h / 24 bands
\* 1B 58 wL wH, 3 * w packed bytes, 0A 0D, then 1B 7A 01.  In band s, bit
\* (7 - k) of byte j (j = 0, 1, 2; k = 0..7) of column x is 1 if and only
\* if the pixel (x, 24 * s + 8 * j + k) is dark: an all-white image packs to
\* zero bytes, and a single dark pixel at (0, 0) gives a first byte of 80
\* with every other packed byte 0.
C23_Emitted ==
  SubSeq(enc.buffer, Len(last.pre.buffer) + Len(last.pre.queued) + 1,
         Len(enc.buffer))

C23_Bands == last.img.h \div 24

\* the length of one band: its header, its packed bytes, its terminator
C23_Stride == 4 + 3 * last.img.w + 2

\* byte j of column x in band s
C23_Byte(s, x, j) == C23_Emitted[2 + s * C23_Stride + 4 + 3 * x + j + 1]

C23_Bit(b, k) == (b \div (2 ^ (7 - k))) % 2

C23_Band(s) ==
  /\ SubSeq(C23_Emitted, 2 + s * C23_Stride + 1, 2 + s * C23_Stride + 4)
       = <<27, 88, last.img.w % 256, last.img.w \div 256>>
  /\ SubSeq(C23_Emitted, 2 + (s + 1) * C23_Stride - 1,
            2 + (s + 1) * C23_Stride) = <<10, 13>>
  /\ \A x \in 0..(last.img.w - 1), j \in 0..2, k \in 0..7 :
       C23_Bit(C23_Byte(s, x, j), k) = 1
         <=> <<x, 24 * s + 8 * j + k>> \in last.img.dark

C23_ImagePacking ==
  (last.op = "image" /\ Returned)
    => /\ Len(C23_Emitted) = 2 + C23_Bands * C23_Stride + 3
       /\ SubSeq(C23_Emitted, 1, 2) = <<27, 48>>
       /\ SubSeq(C23_Emitted, Len(C23_Emitted) - 2, Len(C23_Emitted))
            = <<27, 122, 1>>
       /\ \A s \in 0..(C23_Bands - 1) : C23_Band(s)
       /\ last.img.dark = {<<0, 0>>}
            => \A x \in 0..(last.img.w - 1), j \in 0..2 :
                 C23_Byte(0, x, j) = IF x = 0 /\ j = 0 THEN 128 ELSE 0

\* the 8 x 48 image has been emitted in two bands after queued text, the
\* pixel (2, 30) being bit 1 of the middle byte of column 2 in band 1
C23_Witness ==
  /\ last.op = "image" /\ Returned /\ C23_Bands = 2
  /\ last.pre.queued # <<>>
  /\ <<2, 30>> \in last.img.dark
  /\ C23_Byte(1, 2, 0) = 2
  /\ C23_Byte(0, 1, 1) = 64

\* C24: cut() with no argument and cut('full') queue exactly 1B 64 00, and
\* cut('partial') queues exactly 1B 64 01; cut changes neither the cursor
\* nor the style state (nor the committed buffer).
C24_CutContract ==
  (last.op = "cut" /\ ~last.pre.embedded)
    => /\ Returned
       /\ enc.queued
            = last.pre.queued
                \o <<27, 100, IF last.a = "partial" THEN 1 ELSE 0>>
       /\ enc.cursor = last.pre.cursor
       /\ enc.state = last.pre.state
       /\ enc.buffer = last.pre.buffer

\* cut() without argument has returned after text that moved the cursor,
\* and cut('full') would queue the same bytes there
C24_Witness ==
  /\ last.op = "cut" /\ last.a = "undefined" /\ Returned
  /\ last.pre.cursor > 0
  /\ cut(last.pre, "full") = cut(last.pre, "undefined")
  /\ cut(last.pre, "partial").queued = last.pre.queued \o <<27, 100, 1>>

\* C25: raw(data) appends exactly the given bytes to the pending queue, in
\* order, and leaves the cursor, the style state, the tracked code page and
\* the committed buffer unchanged.
C25_RawFrame ==
  last.op = "raw"
    => /\ Returned
       /\ enc.queued = last.pre.queued \o last.s
       /\ enc.cursor = last.pre.cursor
       /\ enc.state = last.pre.state
       /\ enc.codepage = last.pre.codepage
       /\ enc.buffer = last.pre.buffer
       /\ enc.embedded = last.pre.embedded
       /\ enc.options = last.pre.options

\* raw([0x1c, 0x2e]) has returned on an embedded context with text in the
\* queue and committed bytes in the buffer
C25_Witness ==
  /\ last.op = "raw" /\ Returned /\ last.s = <<28, 46>>
  /\ last.pre.embedded
  /\ last.pre.cursor > 0
  /\ last.pre.queued # <<>>
  /\ last.pre.buffer # <<>>

\* C26: in an embedded context of width W, under the alignments left, center
\* and right and for text() and newline() calls whose lines occupy at most
\* W columns, every line of the encode() output, the output split at each
\* 0A 0D pair, holds exactly W printable bytes (its text and its padding
\* spaces): the padding of a line is on that line, never before the
\* terminator that precedes it.
\* The length of the command that starts with the 1B at position i
C26_CommandLength(b, i) ==
  IF i = Len(b) THEN 1
  ELSE IF b[i + 1] \in {29, 105} THEN 4
  ELSE IF b[i + 1] = 45 THEN 3
  ELSE 2

\* the number of bytes from position i to position to that belong to no
\* command
RECURSIVE C26_Printable(_, _, _)
C26_Printable(b, i, to) ==
  IF i > to THEN 0
  ELSE IF b[i] = 27
  THEN C26_Printable(b, i + C26_CommandLength(b, i), to)
  ELSE 1 + C26_Printable(b, i + 1, to)

\* the positions of the 0A of the 0A 0D pairs
C26_Terminators(b) ==
  {i \in 1..(Len(b) - 1) : b[i] = 10 /\ b[i + 1] = 13}

\* the first positions of the lines
C26_Starts(b) == {1} \union {t + 2 : t \in C26_Terminators(b)}

\* the last position of the line that starts at position from
C26_End(b, from) ==
  LET later == {t \in C26_Terminators(b) : t >= from}
  IN IF later = {} THEN Len(b)
     ELSE (CHOOSE t \in later : \A u \in later : t <= u) - 1

C26_LinesFilled ==
  (last.op = "encode" /\ Returned /\ last.pre.embedded
     /\ last.pre.state.align \in {"left", "center", "right"})
    => \A from \in C26_Starts(result) :
         C26_Printable(result, from, C26_End(result, from))
           = last.pre.options.width

\* C27: text() advances the cursor, for each wrapped line it queues, by the
\* line's character count times the current width multiplier, and emits a
\* newline, which resets the cursor to 0, after every line except the last;
\* when a paper width W is configured and the context is not embedded the
\* cursor is reduced modulo W, so 0 <= cursor < W after every text() call.
\* (The cursor and the multiplier are held as twice their value.)
C27_Lines == _wrap(last.pre, last.s, last.v.n)

C27_Modulo ==
  last.pre.options.width # NoWidth /\ ~last.pre.embedded

\* the cursor after the last line, which starts at 0 after a newline and at
\* the cursor of the call otherwise
C27_Cursor ==
  LET from == IF Len(C27_Lines) = 1 THEN last.pre.cursor ELSE 0
      cur == from + Len(C27_Lines[Len(C27_Lines)]) * last.pre.state.width
  IN IF C27_Modulo THEN cur % (2 * last.pre.options.width) ELSE cur

\* the number of line terminators 0A 0D in a sequence of bytes
C27_Terminators(b) ==
  Cardinality({i \in 1..(Len(b) - 1) : b[i] = 10 /\ b[i + 1] = 13})

C27_TextCursor ==
  (last.op = "text" /\ Returned)
    => /\ enc.cursor = C27_Cursor
       /\ C27_Terminators(Committed(enc))
            = C27_Terminators(Committed(last.pre)) + Len(C27_Lines) - 1
       /\ C27_Modulo
            => enc.cursor >= 0 /\ enc.cursor < 2 * last.pre.options.width
       /\ enc.state.width = last.pre.state.width

\* text('ab ab') has wrapped into two lines at double width on a context
\* with a paper width that is not embedded, the cursor being past 0 before
\* the call, and the modulo has reduced the cursor
C27_Witness ==
  /\ last.op = "text" /\ Returned /\ C27_Modulo
  /\ Len(C27_Lines) = 2
  /\ last.pre.state.width = 4
  /\ last.pre.cursor > 0
  /\ Len(C27_Lines[2]) * last.pre.state.width
       >= 2 * last.pre.options.width
  /\ enc.cursor = 0

\* C28: after newline() returns, everything queued before the call has been
\* committed to the buffer (between its padding spaces in an embedded
\* context), the cursor is 0, and the pending queue is the terminator 0A 0D
\* followed, if and only if the context is embedded, by the restore
\* sequence: bold, underline, invert and the select of the tracked code page
\* id; the tracked style state is unchanged.
C28_Restore ==
  (IF enc.state.bold THEN <<27, 69>> ELSE <<27, 70>>)
    \o <<27, 45, IF enc.state.underline THEN 1 ELSE 0>>
    \o (IF enc.state.invert THEN <<27, 52>> ELSE <<27, 53>>)
    \o <<27, 29, 116, enc.state.codepage>>

\* the bytes the call has committed
C28_Flushed == SubSeq(enc.buffer, Len(last.pre.buffer) + 1, Len(enc.buffer))

C28_Newline ==
  (last.op = "newline" /\ Returned)
    => /\ SubSeq(enc.buffer, 1, Len(last.pre.buffer)) = last.pre.buffer
       /\ IF last.pre.embedded
          THEN \E l \in 0..last.pre.options.width :
                 \E r \in 0..last.pre.options.width :
                   C28_Flushed = Spaces(l) \o last.pre.queued \o Spaces(r)
          ELSE C28_Flushed = last.pre.queued
       /\ enc.cursor = 0
       /\ enc.queued
            = <<10, 13>> \o (IF last.pre.embedded THEN C28_Restore ELSE <<>>)
       /\ enc.state = last.pre.state

\* newline() has returned on an embedded context in bold with text in its
\* queue
C28_Witness ==
  /\ last.op = "newline" /\ Returned
  /\ last.pre.embedded /\ last.pre.state.bold
  /\ last.pre.cursor > 0
  /\ last.pre.queued # <<>>
  /\ Len(enc.queued) = 13

\* C29: for each table row with maxLines visual lines, table() emits the
\* lines in increasing line index and, within a line, the columns in
\* increasing column index, each column giving its marginLeft spaces, its
\* fragment for that line and its marginRight spaces; every visual line is
\* ended by one newline(), so a row gives exactly maxLines line terminators
\* and a row with maxLines = 0 gives none.
C29_MaxLines(r) == MaxLen(C10_Cells(r))

\* the bytes of visual line l of row r
C29_Line(r, l) ==
  C9_Concat([k \in DOMAIN last.tbl.columns |->
               Spaces(last.tbl.columns[k].marginLeft)
                 \o C10_Padded(r)[k][l]
                 \o Spaces(last.tbl.columns[k].marginRight)])
    \o <<10, 13>>

C29_Row(r) == C9_Concat([l \in 1..C29_MaxLines(r) |-> C29_Line(r, l)])

C29_Rows == C9_Concat([r \in DOMAIN last.tbl.data |-> C29_Row(r)])

RECURSIVE C29_Sum(_)
C29_Sum(ns) == IF ns = <<>> THEN 0 ELSE Head(ns) + C29_Sum(Tail(ns))

\* the line terminators of the call: one for each visual line, and the
\* forced newline when the cursor was not 0
C29_Terminators ==
  C29_Sum([r \in DOMAIN last.tbl.data |-> C29_MaxLines(r)])
    + (IF last.pre.cursor # 0 THEN 1 ELSE 0)

C29_TableEmission ==
  (last.op = "table" /\ Returned)
    => /\ C27_Terminators(Committed(enc))
            = C27_Terminators(Committed(last.pre)) + C29_Terminators
       /\ ~last.pre.embedded
            => Committed(enc)
                 = Committed(last.pre)
                     \o (IF last.pre.cursor # 0 THEN <<10, 13>> ELSE <<>>)
                     \o C29_Rows

\* table() has returned, called with the cursor past 0, with a row of no
\* line before a row of two visual lines in columns that have a margin
C29_Witness ==
  /\ last.op = "table" /\ Returned /\ ~last.pre.embedded
  /\ Len(last.tbl.data) = 2
  /\ C29_MaxLines(1) = 0 /\ C29_Row(1) = <<>>
  /\ C29_MaxLines(2) >= 2
  /\ last.tbl.columns[1].marginRight = 1
  /\ last.pre.cursor # 0

\* C30: for box() with string contents whose wrapped lines fit the inner
\* width (width - 2 - paddingLeft - paddingRight), every emitted line has
\* the printable width marginLeft + width + marginRight: the top and bottom
\* borders are marginLeft spaces, a corner, width - 2 fill glyphs, a corner
\* and marginRight spaces, and each content line is marginLeft spaces, a
\* vertical border, paddingLeft spaces, an inner-width fragment,
\* paddingRight spaces, a vertical border and marginRight spaces; the box
\* has one content line per wrapped line.
C30_Width == BoxWidth(last.pre, last.bx.options)

C30_Inner == BoxInner(last.pre, last.bx.options)

C30_Wrapped == linewrap(C30_Inner, "default", last.bx.contents.s)

C30_Fits ==
  /\ last.bx.contents.t = "string"
  /\ \A f \in DOMAIN C30_Wrapped : Len(C30_Wrapped[f]) <= C30_Inner

\* the bytes from position i on that belong to no command
RECURSIVE C30_Strip(_, _)
C30_Strip(b, i) ==
  IF i > Len(b) THEN <<>>
  ELSE IF b[i] = 27 THEN C30_Strip(b, i + C26_CommandLength(b, i))
  ELSE <<b[i]>> \o C30_Strip(b, i + 1)

\* the bytes that follow the earlier ones, without the terminator of the
\* forced newline
C30_Emitted ==
  LET before == Len(Committed(last.pre))
                  + (IF last.pre.cursor # 0 THEN 2 ELSE 0)
  IN IF C8_IsPrefix(Committed(last.pre), Committed(enc))
        /\ before <= Len(Committed(enc))
     THEN SubSeq(Committed(enc), before + 1, Len(Committed(enc)))
     ELSE Committed(enc)

\* the first position of line i of the emitted bytes, the lines being cut
\* at each 0A 0D pair
C30_Start(i) ==
  CHOOSE from \in C26_Starts(C30_Emitted) :
    Cardinality({t \in C26_Starts(C30_Emitted) : t < from}) = i - 1

\* the printable bytes of line i of the box
C30_Line(i) ==
  IF i <= Cardinality(C26_Starts(C30_Emitted))
  THEN C30_Strip(SubSeq(C30_Emitted, C30_Start(i),
                        C26_End(C30_Emitted, C30_Start(i))), 1)
  ELSE <<>>

C30_Border(left, right) ==
  Spaces(last.bx.options.marginLeft) \o <<left>>
    \o Fill(C30_Width - 2, BoxElements(last.bx.options.style)[5])
    \o <<right>> \o Spaces(last.bx.options.marginRight)

C30_ContentLine(ln) ==
  LET el == BoxElements(last.bx.options.style)
      lead == Spaces(last.bx.options.marginLeft) \o <<el[6]>>
                \o Spaces(last.bx.options.paddingLeft)
      trail == Spaces(last.bx.options.paddingRight) \o <<el[6]>>
                 \o Spaces(last.bx.options.marginRight)
  IN /\ Len(ln) = Len(lead) + C30_Inner + Len(trail)
     /\ SubSeq(ln, 1, Len(lead)) = lead
     /\ SubSeq(ln, Len(ln) - Len(trail) + 1, Len(ln)) = trail

C30_BoxLines ==
  (last.op = "box" /\ Returned /\ C30_Fits)
    => LET el == BoxElements(last.bx.options.style)
           n == Len(C30_Wrapped)
       IN /\ C30_Line(1) = C30_Border(el[1], el[2])
          /\ \A k \in 1..n : C30_ContentLine(C30_Line(k + 1))
          /\ C30_Line(n + 2) = C30_Border(el[3], el[4])
          /\ \A i \in 1..(n + 2) :
               Len(C30_Line(i))
                 = last.bx.options.marginLeft + C30_Width
                     + last.bx.options.marginRight
          /\ \A i \in 1..Cardinality(C26_Starts(C30_Emitted)) :
               i > n + 2 => C30_Line(i) = <<>>

\* C31: box() and rule() never leave the printer in the glyph code page: in
\* the bytes each of them queues, every select of cp437 is followed, before
\* the call returns, by a code page select that carries the tracked code
\* page id; and inside a box each content fragment is followed by the
\* restore sequence and a new select of cp437 before the right border glyph.
\* (When cp437 is the tracked code page the selects are the same bytes.)
\* The bytes the call has handed to _queue, in order
C31_Queued == SubSeq(enc.issued, Len(last.pre.issued) + 1, Len(enc.issued))

C31_SelectAt(b, i, id) ==
  i + 3 <= Len(b) /\ SubSeq(b, i, i + 3) = <<27, 29, 116, id>>

\* pattern occurs in b
C31_Occurs(pattern, b) ==
  \E p \in 1..(Len(b) - Len(pattern) + 1) :
    SubSeq(b, p, p + Len(pattern) - 1) = pattern

\* the content fragments of the box
C31_Fragments ==
  CellOf(last.pre, BoxInner(last.pre, last.bx.options),
         last.bx.options.align, last.bx.contents).cell

\* a fragment, the restore sequence with some code page id, the select of
\* cp437, the right padding and the right border
C31_ContentTail(fragment, id) ==
  fragment
    \o (IF enc.state.bold THEN <<27, 69>> ELSE <<27, 70>>)
    \o <<27, 45, IF enc.state.underline THEN 1 ELSE 0>>
    \o (IF enc.state.invert THEN <<27, 52>> ELSE <<27, 53>>)
    \o <<27, 29, 116, id>>
    \o <<27, 29, 116, _getCodepageIdentifier("cp437")>>
    \o Spaces(last.bx.options.paddingRight)
    \o <<BoxElements(last.bx.options.style)[6]>>

C31_GlyphCodepageLeft ==
  (last.op \in {"box", "rule"} /\ Returned)
    => /\ \E i \in 1..Len(C31_Queued) :
            C31_SelectAt(C31_Queued, i, _getCodepageIdentifier("cp437"))
       /\ \A i \in 1..Len(C31_Queued) :
            C31_SelectAt(C31_Queued, i, _getCodepageIdentifier("cp437"))
              => \E j \in i..Len(C31_Queued) :
                   C31_SelectAt(C31_Queued, j, enc.state.codepage)
       /\ last.op = "box"
            => \A f \in DOMAIN C31_Fragments :
                 \E id \in 0..255 :
                   /\ C31_Occurs(C31_ContentTail(C31_Fragments[f], id),
                                 C31_Queued)
                   /\ last.pre.codepage # "auto"
                        => id = last.pre.state.codepage

\* box() has returned in a context that is not embedded and tracks a code
\* page other than cp437, with a string that wraps to two content lines
C31_Witness ==
  /\ last.op = "box" /\ Returned /\ ~last.pre.embedded
  /\ Len(C31_Fragments) = 2
  /\ enc.state.codepage # _getCodepageIdentifier("cp437")
  /\ rule(last.pre, "double", 3).issued
       = last.pre.issued
           \o <<27, 29, 116, _getCodepageIdentifier("cp437"), 205, 205, 205,
                27, 29, 116, last.pre.state.codepage, 10, 13>>

\* C32: table() and box() construct a new embedded context for every
\* callback cell, of the column width or the box inner width, never passing
\* the same context to two cells; and running the callbacks leaves the
\* style state of the parent context (bold, underline, invert, width,
\* height, align), its tracked code page and its encoding name unchanged.
\* The context a callback receives: new, embedded, of width w, with the
\* encoding name of the parent and the alignment al
C32_Received(w, al) ==
  [_reset([last.pre.options EXCEPT !.width = w, !.embedded = TRUE])
     EXCEPT !.codepage = last.pre.codepage, !.state.align = al]

\* the fragments of a callback run on such a context
C32_Fragments(w, al, prog) ==
  SplitLines(encodeResult(Run(C32_Received(w, al), prog)))

\* the callback cells of the last table() call: row r, column k
C32_Callbacks ==
  { rk \in (1..Len(last.tbl.data)) \X (1..Len(last.tbl.columns)) :
      CellAt(last.tbl.data[rk[1]], rk[2]).t = "function" }

\* no string is encoded by the parent in 'auto' mode, which would move its
\* tracked code page
C32_OnlyCallbacks ==
  \/ last.pre.codepage # "auto"
  \/ /\ last.op = "table"
     /\ \A r \in DOMAIN last.tbl.data : \A k \in DOMAIN last.tbl.columns :
          CellAt(last.tbl.data[r], k).t # "string"
  \/ last.op = "box" /\ last.bx.contents.t # "string"

C32_NestedContexts ==
  (last.op \in {"table", "box"} /\ Returned)
    => /\ C32_OnlyCallbacks
            => enc.state = last.pre.state /\ enc.codepage = last.pre.codepage
       /\ enc.state.bold = last.pre.state.bold
       /\ enc.state.underline = last.pre.state.underline
       /\ enc.state.invert = last.pre.state.invert
       /\ enc.state.width = last.pre.state.width
       /\ enc.state.height = last.pre.state.height
       /\ enc.state.align = last.pre.state.align
       /\ enc.codepage = last.pre.codepage
       /\ enc.options = last.pre.options
       /\ last.op = "table"
            => \A rk \in C32_Callbacks :
                 C10_Cells(rk[1])[rk[2]]
                   = C32_Fragments(last.tbl.columns[rk[2]].width,
                                   last.tbl.columns[rk[2]].align,
                                   CellAt(last.tbl.data[rk[1]], rk[2]).prog)
       /\ (last.op = "box" /\ last.bx.contents.t = "function")
            => C31_Fragments
                 = C32_Fragments(BoxInner(last.pre, last.bx.options),
                                 last.bx.options.align,
                                 last.bx.contents.prog)

\* table() has returned with two callback cells in one row, the first of
\* which left bold and underline on in its context, in a parent that
\* tracked bold as off
C32_Witness ==
  /\ last.op = "table" /\ Returned
  /\ ~last.pre.state.bold
  /\ \E k1 \in 1..2 : \E k2 \in 2..3 :
       /\ k1 < k2
       /\ <<1, k1>> \in C32_Callbacks /\ <<1, k2>> \in C32_Callbacks
       /\ Run(C32_Received(last.tbl.columns[k1].width,
                           last.tbl.columns[k1].align),
              last.tbl.data[1][k1].prog).state.bold

\* ------------------------------------------------------------------- C33
\* The runs of the last text() call in 'auto' mode, the lines it wrapped its
\* string into, and the bytes it handed to the queue.
C33_Lines == _wrap(last.pre, last.s, last.v.n)

C33_Runs == autoEncode(last.s, last.pre.options.codepageCandidates)

C33_Emitted ==
  SubSeq(enc.issued, Len(last.pre.issued) + 1, Len(enc.issued))

C33_Unmapped ==
  \E f \in DOMAIN C33_Runs : C33_Runs[f].codepage \notin DOMAIN codepageMappings

\* every run preceded by the select of the identifier the mapping defines
RECURSIVE C33_Selected(_)
C33_Selected(runs) ==
  IF runs = <<>> THEN <<>>
  ELSE <<27, 29, 116, _getCodepageIdentifier(Head(runs).codepage)>>
       \o Head(runs).bytes \o C33_Selected(Tail(runs))

\* C33: in 'auto' code page mode a text() of one line emits a code page
\* select immediately before the bytes of every run, each select carries the
\* identifier the mapping defines for the code page of its run, and the
\* tracked code page id afterwards is the id of the last run; when a run is
\* in a candidate code page the mapping does not define, text() fails and
\* emits nothing.
C33_AutoSelects ==
  (/\ last.op = "text"
   /\ last.pre.codepage = "auto"
   /\ Len(C33_Lines) = 1
   /\ C33_Runs # <<>>)
    => IF C33_Unmapped
       THEN ~Returned /\ C33_Emitted = <<>>
       ELSE /\ Returned
            /\ C33_Emitted = C33_Selected(C33_Runs)
            /\ enc.state.codepage
                 = _getCodepageIdentifier(C33_Runs[Len(C33_Runs)].codepage)

\* ------------------------------------------------------------------- C34
\* C34: encode() resets only the state of the print job: the buffer, the
\* queue, the cursor and the style state are those of a new encoder, and the
\* configuration given to the constructor (width, wordWrap, embedded, the
\* code page candidates) is the same after encode() as before, so the
\* encoder wraps the text of the next job at the configured paper width.
C34_ConfigurationKept ==
  (last.op = "encode" /\ Returned)
    => /\ enc.buffer = <<>> /\ enc.queued = <<>> /\ enc.cursor = 0
       /\ enc.state = DefaultState
       /\ enc.options = last.pre.options
       /\ enc.embedded = last.pre.embedded
       /\ _wrap(enc, SABAB, 0) = _wrap(StarPrntEncoder(last.pre.options), SABAB, 0)

\* ------------------------------------------------------------------- C35
\* the identifier of an encoding name: 0 while no code page was selected
C35_Identifier(name) ==
  IF name = "ascii" THEN 0 ELSE _getCodepageIdentifier(name)

\* the bytes a callback cell of width w and alignment al encodes
C35_Encoded(w, al, prog) == encodeResult(Run(C32_Received(w, al), prog))

\* the context a callback receives tracks the identifier of its encoding
\* name, and every select among its bytes is a select of that identifier
C35_Nested(w, al, prog) ==
  /\ C32_Received(w, al).state.codepage = C35_Identifier(last.pre.codepage)
  /\ \A i \in 1..(Len(C35_Encoded(w, al, prog)) - 3) :
       SubSeq(C35_Encoded(w, al, prog), i, i + 2) = <<27, 29, 116>>
         => C35_Encoded(w, al, prog)[i + 3] = C35_Identifier(last.pre.codepage)

C36_CursorWithinWidth ==
  (/\ last.pre.embedded
   /\ last.op \in {"text", "width", "newline", "encode"}
   /\ last.pre.state.width % 2 = 0
   /\ enc.state.width % 2 = 0)
    => /\ last.err # "Invalid array length"
       /\ enc.embedded => enc.cursor <= 2 * enc.options.width

\* ------------------------------------------------------------------- C37
\* The flags a printer holds after the bytes b of one job, starting from
\* the defaults: the last bold command 1B 45 / 1B 46, the last underline
\* command 1B 2D n and the last invert command 1B 34 / 1B 35 decide.
C37_Commands(b, codes) ==
  {i \in 1..(Len(b) - 1) : b[i] = 27 /\ b[i + 1] \in codes}

C37_Last(b, codes) ==
  CHOOSE i \in C37_Commands(b, codes) :
    \A j \in C37_Commands(b, codes) : j <= i

C37_PrinterBold(b) ==
  C37_Commands(b, {69, 70}) # {} /\ b[C37_Last(b, {69, 70}) + 1] = 69

C37_PrinterUnderline(b) ==
  /\ C37_Commands(b, {45}) # {}
  /\ C37_Last(b, {45}) + 2 <= Len(b)
  /\ b[C37_Last(b, {45}) + 2] = 1

C37_PrinterInvert(b) ==
  C37_Commands(b, {52, 53}) # {} /\ b[C37_Last(b, {52, 53}) + 1] = 52

\* C37: within one print job, after every call that returns, the tracked
\* bold, underline and invert flags equal the flags a printer holds after
\* all the bytes committed or queued so far, the bytes of table and box
\* cell callbacks included.
C37_PrinterFollows ==
  (Returned /\ last.op # "new")
    => /\ enc.state.bold = C37_PrinterBold(Committed(enc))
       /\ enc.state.underline = C37_PrinterUnderline(Committed(enc))
       /\ enc.state.invert = C37_PrinterInvert(Committed(enc))

\* ------------------------------------------------------------------- C38
\* C38: a validation failure is atomic: when width, height, align, codepage,
\* barcode, qrcode, image, cut or pulse throws, the queue, the committed
\* buffer, the cursor, the style state and the encoding name are those of
\* before the call, so no byte of the rejected command is emitted later.
C38_AtomicFailure ==
  (/\ ~Returned
   /\ last.op \in {"width", "height", "align", "codepage", "barcode",
                   "qrcode", "image", "cut", "pulse"})
    => /\ enc.queued = last.pre.queued
       /\ enc.buffer = last.pre.buffer
       /\ enc.cursor = last.pre.cursor
       /\ enc.state = last.pre.state
       /\ enc.codepage = last.pre.codepage

\* ------------------------------------------------------------------- C39
\* the callback cells of the last table() call in a column without align
C39_Unaligned ==
  { rk \in C32_Callbacks : last.tbl.columns[rk[2]].align = "undefined" }

\* the callbacks of the other columns run and flush without a throw
C39_OthersRun ==
  \A rk \in C32_Callbacks \ C39_Unaligned :
    ~Failed(_flush(Run(C32_Received(last.tbl.columns[rk[2]].width,
                                    last.tbl.columns[rk[2]].align),
                       last.tbl.data[rk[1]][rk[2]].prog)))

\* the lines of the string contents of the last box() call, padded on the
\* right to the inner width
C39_PaddedRight ==
  [f \in DOMAIN C30_Wrapped |->
     _encodeBytes(last.pre, padEnd(C30_Wrapped[f], C30_Inner))]

\* C39: align has no default in nested contexts.  A box() whose options omit
\* align and whose contents is a callback, and a table() with a callback cell
\* in a column whose definition omits align, throw 'Unknown alignment'; the
\* same box or column with string contents pads the text on the right.
C39_AlignRequired ==
  /\ (/\ last.op = "box" /\ last.pre.cursor = 0
      /\ last.bx.options.align = "undefined")
       => /\ last.bx.contents.t = "function"
               => last.err = "Unknown alignment"
          /\ (last.bx.contents.t = "string" /\ last.pre.codepage # "auto")
               => Returned /\ C31_Fragments = C39_PaddedRight
  /\ (/\ last.op = "table" /\ last.pre.cursor = 0
      /\ C39_Unaligned # {} /\ C39_OthersRun)
       => last.err = "Unknown alignment"
  /\ last.op = "table"
       => \A rk \in C9_Cells :
            (/\ last.tbl.columns[rk[2]].align = "undefined"
             /\ last.pre.codepage # "auto")
              => \A f \in DOMAIN C9_Fragments(rk) :
                   C9_Fragments(rk)[f]
                     = CodepageEncode(padEnd(C9_Wrapped(rk)[f],
                                             last.tbl.columns[rk[2]].width),
                                      last.pre.codepage)

\* box() without align has thrown for a callback, and a later box() without
\* align has returned for a string
C39_Witness ==
  /\ last.op = "box" /\ Returned
  /\ last.bx.options.align = "undefined" /\ last.bx.contents.t = "string"
  /\ last.pre.issued # <<>>
  /\ C31_Occurs(<<218, 196, 196, 196, 191>>, last.pre.issued)
  /\ ~C31_Occurs(<<192, 196, 196, 196, 217>>, last.pre.issued)

\* ------------------------------------------------------------------- C40
\* C40: initialize() queues 1B 40 18, which puts the printer's settings back
\* to their defaults, and the tracked state follows: after initialize() the
\* encoding name is 'ascii', the tracked code page id is 0 and the bold,
\* underline and invert flags are off, so that text after
\* codepage('cp437').initialize() is not encoded in cp437.
C40_InitializeResets ==
  (last.op = "initialize" /\ Returned)
    => /\ SubSeq(enc.issued, Len(last.pre.issued) + 1, Len(enc.issued))
            = <<27, 64, 24>>
       /\ enc.codepage = "ascii"
       /\ enc.state.codepage = 0
       /\ ~enc.state.bold /\ ~enc.state.underline /\ ~enc.state.invert
       /\ _encodeBytes(enc, SE) = CodepageEncode(SE, "ascii")

====
